---- MODULE Spec2Model ----
(***************************************************************************)
(* Kapi keyframe engine (src/js/kapi.js, v1.0.7): the Timeline Store and   *)
(* the Tick Driver as a state machine.                                     *)
(*                                                                         *)
(* One engine instance is the record `inst`; its fields carry the names of *)
(* the fields of the `inst` object of the source.  Every operation of the  *)
(* source is an operator from an engine record to a result                 *)
(* [st |-> engine record, err |-> what was thrown ("" when nothing was)]   *)
(* and the actions apply these operators.                                  *)
(*                                                                         *)
(* Conventions                                                             *)
(*  - JavaScript `undefined` and NaN in a numeric field are the sentinels  *)
(*    UNDEF and NAN; every comparison and sum that can meet them is        *)
(*    written out with the JavaScript outcome.                             *)
(*  - for-in over an object whose keys are keyframe ids visits the         *)
(*    non-negative integer keys in ascending order and then the other keys *)
(*    (ECMAScript OrdinaryOwnPropertyKeys); a key deleted before it is     *)
(*    visited is not visited.                                              *)
(*  - State objects stored in inst._keyframes are never mutated in place   *)
(*    by the source (they are replaced), so a live copy sharing the object *)
(*    of its source is modelled by storing an equal value.                 *)
(*  - fps ranges over values that divide 1000, so 1000 / fps and           *)
(*    1000 * lastKeyframe / fps are integers and no rounding is hidden.    *)
(***************************************************************************)
EXTENDS Integers, Sequences, FiniteSets, TLC

VARIABLES
    inst,       \* the engine instance (the `inst` object of kapi())
    now,        \* the wall clock, in milliseconds (now())
    timers,     \* pending setTimeout callbacks: handle -> time it is due
    lastCall,   \* the operation that was just applied, with its arguments
    lastErr,    \* what that operation threw ("" when it returned normally)
    fired,      \* events fired and actors drawn by that operation, in order
    hist        \* recorded facts about the run, read by the properties

vars == <<inst, now, timers, lastCall, lastErr, fired, hist>>

----------------------------------------------------------------------------
(* Bounds of the model                                                     *)

MaxKeyframe == 2        \* frame numbers passed to the timeline operations
MaxTime == 10           \* milliseconds of playback that are followed
MaxTimers == 2          \* pending timers the model follows
MaxReps == 2            \* largest argument of repeat() / iterate()
MaxOps == 4             \* timeline operations applied in one run
MaxCalls == 4           \* calls of the page and of handlers during playback
MaxHandlerCalls == 1    \* of these, calls made by a handler inside a tick

ActorIds == {"a", "b"}
FrameRates == {500, 1000}

UNDEF == -1
NAN == -2

----------------------------------------------------------------------------
(* Partial maps (JavaScript objects used as dictionaries)                  *)

EmptyMap == [x \in {} |-> 0]

Has(f, k) == k \in DOMAIN f

Put(f, k, v) == [x \in (DOMAIN f) \cup {k} |-> IF x = k THEN v ELSE f[x]]

Del(f, k) == [x \in (DOMAIN f) \ {k} |-> f[x]]

Last(seq) == seq[Len(seq)]

SeqSet(seq) == {seq[i] : i \in 1..Len(seq)}

RemoveAt(seq, i) == [j \in 1..(Len(seq) - 1) |-> IF j < i THEN seq[j] ELSE seq[j + 1]]

Min(S) == CHOOSE x \in S : \A y \in S : x <= y

Max(S) == CHOOSE x \in S : \A y \in S : x >= y

RECURSIVE InsertSorted(_, _)
InsertSorted(seq, x) ==
    IF seq = <<>> THEN <<x>>
    ELSE IF x < Head(seq) THEN <<x>> \o seq
    ELSE <<Head(seq)>> \o InsertSorted(Tail(seq), x)

\* function sortArrayNumerically (array)
RECURSIVE sortArrayNumerically(_)
sortArrayNumerically(seq) ==
    IF seq = <<>> THEN <<>>
    ELSE InsertSorted(sortArrayNumerically(Tail(seq)), Head(seq))

\* The keys of an object in for-in order: non-negative integers ascending,
\* then the remaining (negative) keys.
RECURSIVE KeyOrder(_)
KeyOrder(S) ==
    IF S = {} THEN <<>>
    ELSE LET nonneg == {k \in S : k >= 0}
             k == IF nonneg # {} THEN Min(nonneg) ELSE Min(S)
         IN <<k>> \o KeyOrder(S \ {k})

R(s, e) == [st |-> s, err |-> e]

Ok(s) == R(s, "")

Then(r, F(_)) == IF r.err # "" THEN r ELSE F(r.st)

\* var v = ...; the statements that follow read v.
With(v, F(_)) == F(v)

----------------------------------------------------------------------------
(* Property values and property bags                                       *)

Num(n) == [t |-> "num", op |-> "", n |-> n, d |-> 1]
Mod(op, n) == [t |-> "mod", op |-> op, n |-> n, d |-> 1]
Hex(c) == [t |-> "hex", op |-> "", n |-> c, d |-> 1]
Rgb(c) == [t |-> "rgb", op |-> "", n |-> c, d |-> 1]
Obj == [t |-> "obj", op |-> "", n |-> 0, d |-> 1]

\* function isColorString (str)
isColorString(v) == v.t \in {"hex", "rgb"}

\* function hexToRGBStr (hexStr)
hexToRGBStr(v) == IF v.t = "rgb" THEN v ELSE Rgb(v.n)

\* function isModifierString (str)
isModifierString(v) == v.t = "mod"

\* function isDynamic (prop)
isDynamic(v) == isModifierString(v) \/ v.t = "fn"

\* typeof v === 'string'
IsString(v) == v.t \in {"mod", "hex", "rgb", "str"}

\* function extend (child, parent, doOverwrite), on flat bags
extend(child, parent, doOverwrite) ==
    [p \in (DOMAIN child) \cup (DOMAIN parent) |->
        IF p \in DOMAIN parent /\ (doOverwrite \/ p \notin DOMAIN child)
        THEN parent[p] ELSE child[p]]

----------------------------------------------------------------------------
(* Keyframe identifiers: a frame number, or a time literal "<n>s", "<n>ms" *)

Frame(n) == [unit |-> "f", n |-> n]
Lit(n, unit) == [unit |-> unit, n |-> n]

\* calcKeyframe and function _getRealKeyframe (identifier).  A number is
\* returned as it is; a literal is converted and truncated by parseInt; an
\* unknown unit throws.
_getRealKeyframe(s, id) ==
    IF id.unit = "f" THEN [v |-> id.n, err |-> ""]
    ELSE IF id.unit = "ms" THEN [v |-> (id.n * s.fps) \div 1000, err |-> ""]
    ELSE IF id.unit = "s" THEN [v |-> id.n * s.fps, err |-> ""]
    ELSE [v |-> 0, err |-> "Invalid keyframe identifier unit!"]

\* _getRealKeyframe applied to a key of for-in (a string of digits, or the
\* string of a negative number, on which the quantifier regexp fails).
_getRealKeyframeOfKey(k) ==
    IF k >= 0 THEN [v |-> k, err |-> ""] ELSE [v |-> k, err |-> "TypeError"]

----------------------------------------------------------------------------
(* The engine instance after kapi(canvas, {fps: fps})                      *)

NewInst(fps) ==
    [ fps |-> fps,
      keyframeIds |-> <<>>,
      reachedKeyframes |-> <<>>,
      layerIndex |-> <<>>,
      keyframes |-> EmptyMap,
      actors |-> EmptyMap,
      actorsOrder |-> <<>>,
      actorstateIndex |-> EmptyMap,
      keyframeCache |-> EmptyMap,
      originalStates |-> EmptyMap,
      liveCopies |-> EmptyMap,
      liveCopiesOrder |-> <<>>,
      currentState |-> EmptyMap,
      animationDuration |-> 0,
      repsRemaining |-> -1,
      lastKeyframe |-> UNDEF,
      currentFrame |-> UNDEF,
      loopStartTime |-> UNDEF,
      startTime |-> UNDEF,
      pausedAtTime |-> UNDEF,
      isPaused |-> "undefined",
      isStopped |-> "undefined",
      loopLength |-> UNDEF,
      updateHandle |-> UNDEF,
      repeatCompleteHandler |-> FALSE,
      isPuppet |-> FALSE,
      puppets |-> EmptyMap,
      puppetsOrder |-> <<>>,
      sequences |-> EmptyMap ]

----------------------------------------------------------------------------
(* Timeline Store                                                          *)
(*                                                                         *)
(* inst._keyframes[k][actor] is a property bag (the `_keyframeID` and      *)
(* `prototype` entries that the source keeps in the same object are kept   *)
(* apart: the identifier in inst._originalStates[k][actor].id, the owner   *)
(* as the key).  actorsOrder and liveCopiesOrder are the insertion orders  *)
(* of the keys of inst._actors / inst._actorstateIndex and of              *)
(* inst._liveCopies, which for-in follows.                                 *)

\* The value `undefined` stored under an actor's key of a keyframe.
UndefBag == [undefined |-> Obj]

\* inst._keyframes[k] && inst._keyframes[k][actor]
HasState(s, k, a) ==
    /\ Has(s.keyframes, k)
    /\ Has(s.keyframes[k], a)
    /\ s.keyframes[k][a] # UndefBag

RemoveFirst(seq, x) ==
    IF x \in SeqSet(seq)
    THEN RemoveAt(seq, Min({i \in 1..Len(seq) : seq[i] = x}))
    ELSE seq

PutOrder(order, k) == IF k \in SeqSet(order) THEN order ELSE Append(order, k)

\* function _updateKeyframeIdsList (keyframeId)
_updateKeyframeIdsList(s, k) ==
    IF k \in SeqSet(s.keyframeIds) THEN s
    ELSE [s EXCEPT !.keyframeIds = sortArrayNumerically(Append(@, k))]

\* _updateActorStateIndex without the search for the id in the list.
_updateActorStateIndex_NoSearch(s, a, k) ==
    [s EXCEPT !.actorstateIndex[a].idx = sortArrayNumerically(Append(@, k))]

\* function _updateActorStateIndex (actor, params)
_updateActorStateIndex(s, a, k) ==
    IF k \in SeqSet(s.actorstateIndex[a].idx) THEN s
    ELSE [s EXCEPT !.actorstateIndex[a].idx = sortArrayNumerically(Append(@, k))]

\* A normalization that stores the original state and inherits nothing.
NormalizedState_NoInherit(base, hasPrev, prev, orig) == orig

\* The body of the loop of _normalizeActorAcrossKeyframes for one keyframe:
\* the state built from the previous state (or from the actor's params),
\* overwritten with the original state, colours canonicalized and inherited
\* dynamic strings replaced by the no-op modifier.
NormalizedState(base, hasPrev, prev, orig) ==
    LET stateCopy == Del(base, "data")
        newStateObj == extend(stateCopy, orig, TRUE)
    IN [p \in DOMAIN newStateObj |->
          LET v == newStateObj[p]
          IN IF ~IsString(v) THEN v
             ELSE IF isColorString(v) THEN hexToRGBStr(v)
             ELSE IF /\ hasPrev
                     /\ p \in DOMAIN prev
                     /\ isDynamic(prev[p])
                     /\ p \notin DOMAIN orig
                  THEN Mod("+=", 0)
             ELSE v]

RECURSIVE NormalizeFrom(_, _, _, _, _)
NormalizeFrom(s, a, i, hasPrev, prev) ==
    IF i > Len(s.actorstateIndex[a].idx) THEN Ok(s)
    ELSE With(s.actorstateIndex[a].idx[i], LAMBDA newStateId :
      IF \/ ~Has(s.originalStates, newStateId)
         \/ ~Has(s.keyframes, newStateId)
      THEN R(s, "TypeError")
      ELSE With(NormalizedState(IF hasPrev THEN prev ELSE s.actors[a].params,
                                hasPrev, prev,
                                IF Has(s.originalStates[newStateId], a)
                                THEN s.originalStates[newStateId][a].props
                                ELSE EmptyMap),
                LAMBDA newStateObj :
                  NormalizeFrom([s EXCEPT !.keyframes[newStateId] = Put(@, a, newStateObj)],
                                a, i + 1, TRUE, newStateObj)))

\* function _normalizeActorAcrossKeyframes (actorId)
_normalizeActorAcrossKeyframes(s, a) == NormalizeFrom(s, a, 1, FALSE, EmptyMap)

\* The inner loop of _updateLiveCopies: the aliases of one actor.
RECURSIVE UpdateLiveCopiesOf(_, _, _)
UpdateLiveCopiesOf(s, a, keys) ==
    IF keys = <<>> THEN Ok(s)
    ELSE With(s.liveCopies[a][Head(keys)].copyOf, LAMBDA copyOf :
           IF ~Has(s.keyframes, Head(keys)) \/ ~Has(s.keyframes, copyOf)
           THEN R(s, "TypeError")
           ELSE UpdateLiveCopiesOf(
                  [s EXCEPT !.keyframes[Head(keys)] =
                      Put(@, a, IF Has(s.keyframes[copyOf], a)
                                THEN s.keyframes[copyOf][a] ELSE UndefBag)],
                  a, Tail(keys)))

RECURSIVE UpdateLiveCopiesFrom(_, _)
UpdateLiveCopiesFrom(s, order) ==
    IF order = <<>> THEN Ok(s)
    ELSE Then(UpdateLiveCopiesOf(s, Head(order), KeyOrder(DOMAIN s.liveCopies[Head(order)])),
              LAMBDA t : UpdateLiveCopiesFrom(t, Tail(order)))

\* function _updateLiveCopies ()
_updateLiveCopies(s) == UpdateLiveCopiesFrom(s, s.liveCopiesOrder)

\* function _updateLayers ()
_updateLayers(s) ==
    [s EXCEPT !.actors =
        [a \in DOMAIN s.actors |->
            IF a \in SeqSet(s.layerIndex)
            THEN [s.actors[a] EXCEPT !.params =
                    Put(@, "layer", Num(Min({i \in 1..Len(s.layerIndex) : s.layerIndex[i] = a}) - 1))]
            ELSE s.actors[a]]]

\* _updateLayers as moveToLayer runs it, from position i of inst._layerIndex
\* on: an entry that names no actor (inst._actors[undefined]) ends the loop
\* with a TypeError.
RECURSIVE UpdateLayersFrom(_, _)
UpdateLayersFrom(s, i) ==
    IF i > Len(s.layerIndex) THEN Ok(s)
    ELSE IF ~Has(s.actors, s.layerIndex[i]) THEN R(s, "TypeError")
    ELSE UpdateLayersFrom([s EXCEPT !.actors[s.layerIndex[i]].params =
                                        Put(@, "layer", Num(i - 1))], i + 1)

\* arr.splice(i, 0, x) for an index i (from 0) that is not negative
InsertedAt(seq, i, x) ==
    IF i >= Len(seq) THEN Append(seq, x)
    ELSE [j \in 1..(Len(seq) + 1) |->
            IF j < i + 1 THEN seq[j] ELSE IF j = i + 1 THEN x ELSE seq[j - 1]]

\* parseInt(layerId, 10) of a number
WholePart(v) == IF v.n >= 0 THEN v.n \div v.d ELSE 0 - ((0 - v.n) \div v.d)

\* actorObj.moveToLayer (layerId).  The actor is taken out of the position
\* that its params.layer names; when the list has no such position nothing
\* is taken out and `undefined` is put in.
moveToLayer(s, a, layerId) ==
    IF layerId.t # "num" THEN R(s, "moveToLayer requires a number")
    ELSE IF WholePart(layerId) > -1 /\ WholePart(layerId) < Len(s.layerIndex)
    THEN With(s.actors[a].params["layer"].n, LAMBDA from :
         With(IF from < Len(s.layerIndex) THEN s.layerIndex[from + 1] ELSE "undefined",
              LAMBDA slicedId :
         With(IF from < Len(s.layerIndex) THEN RemoveAt(s.layerIndex, from + 1)
              ELSE s.layerIndex, LAMBDA rest :
           UpdateLayersFrom([s EXCEPT !.layerIndex =
                                InsertedAt(rest, WholePart(layerId), slicedId)], 1))))
    ELSE R(s, "out of bounds")

\* function _updateKeyframes (actor, keyframeId)
_updateKeyframes(s, a, k) ==
    Then(Then(_normalizeActorAcrossKeyframes(
                _updateActorStateIndex(_updateKeyframeIdsList(s, k), a, k), a),
              LAMBDA t : _updateLiveCopies(t)),
         LAMBDA t : Ok(_updateLayers(t)))

\* function _updateAnimationDuration ()
_updateAnimationDuration(s) ==
    [s EXCEPT !.lastKeyframe = IF s.keyframeIds = <<>> THEN UNDEF ELSE Last(s.keyframeIds),
              !.animationDuration = IF s.keyframeIds = <<>> THEN NAN
                                    ELSE (1000 * Last(s.keyframeIds)) \div s.fps]

\* actorObj.keyframe = function keyframe (keyframeId, stateObj)
keyframe(s, a, id, stateObj) ==
    With(_getRealKeyframe(s, id), LAMBDA rk :
      IF rk.err # "" THEN Ok(s)
      ELSE IF rk.v < 0 THEN R(s, "less than zero")
      ELSE
        With(IF rk.v > 0 /\ ~Has(s.keyframes, 0)
             THEN [s EXCEPT !.keyframes = Put(@, 0, EmptyMap),
                            !.keyframeIds = <<0>> \o @]
             ELSE s, LAMBDA s1 :
        With(IF ~Has(s1.keyframes, rk.v)
             THEN [s1 EXCEPT !.keyframes = Put(@, rk.v, EmptyMap)] ELSE s1, LAMBDA s2 :
        With(IF ~Has(s2.originalStates, rk.v)
             THEN [s2 EXCEPT !.originalStates = Put(@, rk.v, EmptyMap)] ELSE s2, LAMBDA s3 :
        Then(_updateKeyframes(
               [s3 EXCEPT !.keyframes[rk.v] = Put(@, a, stateObj),
                          !.originalStates[rk.v] = Put(@, a, [id |-> id, props |-> stateObj])],
               a, rk.v),
             LAMBDA t : Ok(_updateAnimationDuration(t)))))))

\* A removal that lets keyframe zero go like any other keyframe.
DeletesKeyframe_ZeroToo(k, keyframeHasObjs) == ~keyframeHasObjs

\* actorObj.remove: "You can't delete keyframe zero!" - whether the keyframe
\* entry itself goes once the actor's state has been deleted from it.
DeletesKeyframe(k, keyframeHasObjs) == ~keyframeHasObjs /\ k # 0

\* actorObj.remove: the removal of the id from the actor's own index, and
\* the pop of the actor's reachedKeyframes that goes with it.
SpliceActorIndex(s, a, k) ==
    LET index == s.actorstateIndex[a].idx
        reached == s.actorstateIndex[a].reachedKeyframes
    IN IF k \notin SeqSet(index) THEN s
       ELSE LET i == Min({j \in 1..Len(index) : index[j] = k})
            IN [s EXCEPT !.actorstateIndex[a].idx = RemoveAt(index, i),
                         !.actorstateIndex[a].reachedKeyframes =
                            IF (i - 1) <= Len(reached) /\ Len(reached) > 0
                            THEN SubSeq(reached, 1, Len(reached) - 1)
                            ELSE reached]

DetachLiveCopies(s, a) ==
    [s EXCEPT !.liveCopies = Del(@, a),
              !.liveCopiesOrder = RemoveFirst(@, a)]

\* actorObj.remove = function remove (keyframeId).  rk is the outcome of
\* _getRealKeyframe on the argument.  obj is the set of keys still held by
\* the object that inst._liveCopies[actor] referred to when the outermost
\* call began: the for-in loops of the nested calls all enumerate that
\* object, also after `delete inst._liveCopies[actorObj.id]` has detached it.
RECURSIVE removeRec(_, _, _, _)
RECURSIVE removeLoop(_, _, _, _, _, _)

removeLoop(s, a, k, keys, obj, remain) ==
    IF keys = <<>> THEN [st |-> s, err |-> "", obj |-> obj, remain |-> remain]
    ELSE IF Head(keys) \notin obj THEN removeLoop(s, a, k, Tail(keys), obj, remain)
    ELSE IF ~Has(s.liveCopies, a)
         THEN [st |-> s, err |-> "TypeError", obj |-> obj, remain |-> remain]
    ELSE IF Has(s.liveCopies[a], Head(keys)) /\ s.liveCopies[a][Head(keys)].copyOf = k
         THEN With(removeRec(s, a, _getRealKeyframeOfKey(Head(keys)), obj), LAMBDA r :
                IF r.err # ""
                THEN [st |-> r.st, err |-> r.err, obj |-> r.obj, remain |-> remain]
                ELSE removeLoop(r.st, a, k, Tail(keys), r.obj, TRUE))
    ELSE removeLoop(s, a, k, Tail(keys), obj, remain)

\* actorObj.remove, from `delete inst._liveCopies[actorObj.id][keyframeId]`
\* on: s4 is the engine after the splice of the actor's index.
RemoveCopiesOf(s4, a, k, obj) ==
    With(IF Has(s4.liveCopies, a) /\ Has(s4.liveCopies[a], k)
         THEN [s4 EXCEPT !.liveCopies[a] = Del(@, k)]
         ELSE s4, LAMBDA s5 :
    With(IF Has(s4.liveCopies, a)
         THEN removeLoop(s5, a, k, KeyOrder(DOMAIN s5.liveCopies[a]),
                         DOMAIN s5.liveCopies[a], FALSE)
         ELSE [st |-> s5, err |-> "", obj |-> obj, remain |-> FALSE], LAMBDA l :
      IF l.err # "" THEN [st |-> l.st, err |-> l.err, obj |-> l.obj]
      ELSE [st |-> _updateAnimationDuration(
                     IF ~l.remain THEN DetachLiveCopies(l.st, a) ELSE l.st),
            err |-> "", obj |-> l.obj]))

removeRec(s, a, rk, obj) ==
    IF rk.err # "" THEN [st |-> s, err |-> rk.err, obj |-> obj]
    ELSE IF ~HasState(s, rk.v, a) THEN [st |-> s, err |-> "", obj |-> obj]
    ELSE IF ~Has(s.originalStates, rk.v)
         THEN [st |-> [s EXCEPT !.keyframes[rk.v] = Del(@, a)],
               err |-> "TypeError", obj |-> obj]
    ELSE
      With([s EXCEPT !.keyframes[rk.v] = Del(@, a),
                     !.originalStates[rk.v] = Del(@, a)], LAMBDA s2 :
        RemoveCopiesOf(
          SpliceActorIndex(
            IF DeletesKeyframe(rk.v, DOMAIN s2.keyframes[rk.v] # {})
            THEN [s2 EXCEPT !.keyframes = Del(@, rk.v),
                            !.originalStates = Del(@, rk.v),
                            !.keyframeIds = RemoveFirst(@, rk.v),
                            !.reachedKeyframes = RemoveFirst(@, rk.v)]
            ELSE s2, a, rk.v),
          a, rk.v, obj))

removeResolved(s, a, rk) ==
    With(removeRec(s, a, rk,
                   IF Has(s.liveCopies, a) THEN DOMAIN s.liveCopies[a] ELSE {}),
         LAMBDA r : R(r.st, r.err))

remove(s, a, id) == removeResolved(s, a, _getRealKeyframe(s, id))

\* actorObj.removeAll = function removeAll ().  A remove() that leaves the
\* index as it was would repeat for ever: "hang".
RECURSIVE removeAll(_, _)
removeAll(s, a) ==
    IF ~Has(s.actorstateIndex, a) \/ s.actorstateIndex[a].idx = <<>> THEN Ok(s)
    ELSE Then(remove(s, a, Frame(Last(s.actorstateIndex[a].idx))), LAMBDA t :
           IF /\ Has(t.actorstateIndex, a)
              /\ t.actorstateIndex[a].idx = s.actorstateIndex[a].idx
           THEN R(t, "hang")
           ELSE removeAll(t, a))

\* An updateKeyframe that does not test whether the actor has state at the
\* keyframe, and makes the keyframe from the new properties when it has none.
updateKeyframe_Unchecked(s, a, id, newProps) ==
    With(_getRealKeyframe(s, id), LAMBDA rk :
      IF rk.err # "" THEN R(s, rk.err)
      ELSE keyframe(s, a, id,
                    IF /\ HasState(s, rk.v, a)
                       /\ Has(s.originalStates, rk.v) /\ Has(s.originalStates[rk.v], a)
                    THEN extend(s.originalStates[rk.v][a].props, newProps, TRUE)
                    ELSE newProps))

\* actorObj.updateKeyframe = function updateKeyframe (keyframeId, newProps)
updateKeyframe(s, a, id, newProps) ==
    With(_getRealKeyframe(s, id), LAMBDA rk :
      IF rk.err # "" THEN R(s, rk.err)
      ELSE IF ~HasState(s, rk.v, a) THEN Ok(s)
      ELSE IF ~Has(s.originalStates, rk.v) \/ ~Has(s.originalStates[rk.v], a)
           THEN R(s, "TypeError")
      ELSE With(extend(s.originalStates[rk.v][a].props, newProps, TRUE),
                LAMBDA originalState :
                  keyframe([s EXCEPT !.originalStates[rk.v][a].props = originalState],
                           a, id, originalState)))

\* actorObj.liveCopy = function liveCopy (keyframeId, keyframeIdToCopy)
liveCopy(s, a, id, idToCopy) ==
    With(_getRealKeyframe(s, id), LAMBDA rk :
    With(_getRealKeyframe(s, idToCopy), LAMBDA rc :
      IF rk.err # "" THEN R(s, rk.err)
      ELSE IF rc.err # "" THEN R(s, rc.err)
      ELSE IF ~HasState(s, rc.v, a) THEN Ok(s)
      ELSE IF ~Has(s.liveCopies, a) THEN R(s, "TypeError")
      ELSE keyframe([s EXCEPT !.liveCopies[a] =
                        Put(@, rk.v, [copyOf |-> rc.v,
                                      originalKeyframeId |-> id,
                                      originalKeyframeIdCopyOf |-> idToCopy])],
                    a, Frame(rk.v), EmptyMap)))

\* add: function (actor, initialState, setupParams), for an id that is not
\* registered.  The params keep the `data` entry that add() guarantees.
add(s, a, initialState) ==
    LET params == Put(IF Has(initialState, "data") THEN initialState
                      ELSE Put(initialState, "data", Obj),
                      "layer", Num(Len(s.layerIndex)))
    IN [s EXCEPT
          !.actorstateIndex =
              IF Has(@, a) THEN @
              ELSE Put(@, a, [idx |-> <<>>, queue |-> <<>>, reachedKeyframes |-> <<>>]),
          !.actors = Put(@, a, [params |-> params]),
          !.actorsOrder = PutOrder(@, a),
          !.liveCopies = Put(@, a, EmptyMap),
          !.liveCopiesOrder = PutOrder(@, a),
          !.layerIndex = Append(@, a)]

RECURSIVE RemoveEach(_, _, _)
RemoveEach(s, a, ks) ==
    IF ks = <<>> THEN Ok(s)
    ELSE Then(remove(s, a, Frame(Head(ks))), LAMBDA t : RemoveEach(t, a, Tail(ks)))

\* removeActor: function (actorName)
removeActor(s, a) ==
    IF ~Has(s.actors, a) THEN Ok(s)
    ELSE Then(RemoveEach(s, a, s.actorstateIndex[a].idx), LAMBDA t :
              Ok([t EXCEPT !.actorstateIndex = Del(@, a),
                           !.currentState = Del(@, a),
                           !.layerIndex = RemoveFirst(@, a),
                           !.actors = Del(@, a),
                           !.actorsOrder = RemoveFirst(@, a)]))

\* framerate: the first loop - every live copy of every actor is removed.
RECURSIVE FrRemoveCopiesOf(_, _, _)
FrRemoveCopiesOf(s, a, keys) ==
    IF keys = <<>> THEN Ok(s)
    ELSE IF ~Has(s.actors, a) THEN R(s, "TypeError")
    ELSE Then(removeResolved(s, a, _getRealKeyframeOfKey(Head(keys))),
              LAMBDA t : FrRemoveCopiesOf(t, a, Tail(keys)))

RECURSIVE FrRemoveCopies(_, _, _)
FrRemoveCopies(s, olc, order) ==
    IF order = <<>> THEN Ok(s)
    ELSE Then(FrRemoveCopiesOf(s, Head(order), KeyOrder(DOMAIN olc[Head(order)])),
              LAMBDA t : FrRemoveCopies(t, olc, Tail(order)))

\* removeAllKeyframes: function (alsoRemovePuppetKeyframes)
RECURSIVE RemoveAllOf(_, _)
RemoveAllOf(s, order) ==
    IF order = <<>> THEN Ok(s)
    ELSE Then(removeAll(s, Head(order)), LAMBDA t : RemoveAllOf(t, Tail(order)))

removeAllKeyframes(s) == RemoveAllOf(s, s.actorsOrder)

\* framerate: the keyframes of one actor are added back, last one first.
RECURSIVE FrReAddKeyframes(_, _, _, _, _)
FrReAddKeyframes(s, a, index, i, origCopy) ==
    IF i < 1 THEN Ok(s)
    ELSE IF ~Has(origCopy, index[i]) \/ ~Has(origCopy[index[i]], a)
         THEN R(s, "TypeError")
    ELSE Then(keyframe(s, a, origCopy[index[i]][a].id, origCopy[index[i]][a].props),
              LAMBDA t : FrReAddKeyframes(t, a, index, i - 1, origCopy))

RECURSIVE FrReAdd(_, _, _, _, _, _)
FrReAdd(s, order, indexCopy, origCopy, oldFps, newFps) ==
    IF order = <<>> THEN Ok(s)
    ELSE
      Then(FrReAddKeyframes(s, Head(order), indexCopy[Head(order)].idx,
                            Len(indexCopy[Head(order)].idx), origCopy),
           LAMBDA t :
             FrReAdd([t EXCEPT
                        !.actorstateIndex[Head(order)].queue =
                            [i \in 1..Len(@) |->
                                [@[i] EXCEPT !.duration = (@ * newFps) \div oldFps]],
                        !.actorstateIndex[Head(order)].reachedKeyframes =
                            indexCopy[Head(order)].reachedKeyframes],
                     Tail(order), indexCopy, origCopy, oldFps, newFps))

\* framerate: the live copies are made again from their saved identifiers.
RECURSIVE FrCopiesOf(_, _, _, _, _)
FrCopiesOf(s, a, keys, olc, origCopy) ==
    IF keys = <<>> THEN Ok(s)
    ELSE With(olc[a][Head(keys)], LAMBDA temp :
           IF \/ ~Has(origCopy, temp.copyOf)
              \/ ~Has(origCopy[temp.copyOf], a)
              \/ ~Has(s.actors, a)
           THEN R(s, "TypeError")
           ELSE Then(liveCopy(s, a, temp.originalKeyframeId, temp.originalKeyframeIdCopyOf),
                     LAMBDA t : FrCopiesOf(t, a, Tail(keys), olc, origCopy)))

RECURSIVE FrCopies(_, _, _, _)
FrCopies(s, order, olc, origCopy) ==
    IF order = <<>> THEN Ok(s)
    ELSE Then(FrCopiesOf([s EXCEPT !.liveCopies = Put(@, Head(order), EmptyMap),
                                   !.liveCopiesOrder = PutOrder(@, Head(order))],
                         Head(order), KeyOrder(DOMAIN olc[Head(order)]), olc, origCopy),
              LAMBDA t : FrCopies(t, Tail(order), olc, origCopy))

\* framerate: function (newFramerate), for a number
framerate(s, newFramerate) ==
    IF ~(newFramerate > 0) THEN Ok(s)
    ELSE
      Then(FrRemoveCopies([s EXCEPT !.fps = newFramerate], s.liveCopies, s.liveCopiesOrder),
           LAMBDA t2 :
      Then(Then(Then(removeAllKeyframes(t2),
                     LAMBDA t : FrReAdd(t, t2.actorsOrder, t2.actorstateIndex,
                                        t2.originalStates, s.fps, newFramerate)),
                LAMBDA t : FrCopies(t, s.liveCopiesOrder, s.liveCopies, t2.originalStates)),
           LAMBDA t :
             Ok([t EXCEPT !.reachedKeyframes =
                   [i \in 1..Len(t2.reachedKeyframes) |->
                       (t2.reachedKeyframes[i] * newFramerate) \div s.fps]])))

----------------------------------------------------------------------------
(* The timeline operations as actions                                      *)

InitialStates == { [x |-> Num(0)] }

StateBags == { EmptyMap, [x |-> Num(1)], [x |-> Mod("+=", 1)] }

NewProps == { [x |-> Num(2)] }

\* Identifiers handed to the operations: frame numbers (one of them
\* negative), a time literal and a literal with an unknown unit.
FrameArgs == {Frame(n) : n \in 0..MaxKeyframe}
KeyframeArgs == FrameArgs \cup {Frame(-1), Lit(2, "ms"), Lit(1, "min")}

\* The second actor shares keyframes with the first one; it is given the
\* plain operations only.
MainActor == "a"

\* No loop position is on record / no repeat sequence was started.
NoPos == [pos |-> UNDEF, startTime |-> UNDEF, loopStartTime |-> UNDEF]
NoSeq == [loops |-> 0, completes |-> 0, callbacks |-> 0, ended |-> FALSE, broken |-> FALSE]

\* What is on record about the run:
\*   ops        timeline operations applied so far
\*   calls      calls made during playback so far, by the page or a handler
\*   positive   some actor has been given a keyframe with an id above 0
\*   clean      playback was never interrupted (no pause, stop or seek, by
\*              the page or by a handler)
\*   handlers   calls of the engine made by handlers from inside a tick
\*   wasPlaying isPlaying() when the last call or tick began
\*   paused     loop position and timestamps at the pause() that interrupted
\*              playback, while the engine has not been resumed or reset
\*   seq        the repeat()/iterate() sequence started last: loops asked
\*              for, loopComplete events and callbacks seen, whether it ran
\*              out, whether a stop or seek broke it off
\*   log        the handlers of Immediate Actions called so far, in order
\*   restarts   the loop restarts (loopComplete events) of the ticks so far,
\*              in the runs that count them
\*   pausedFor  the total length of the pauses (pause() to the following
\*              play()) since the Immediate Action at the head of the
\*              queue of actor "a" was first evaluated, in the runs that
\*              count it
NoHist ==
    [ops |-> 0, calls |-> 0, positive |-> FALSE, clean |-> TRUE, handlers |-> 0,
     wasPlaying |-> FALSE, paused |-> NoPos, seq |-> NoSeq, log |-> <<>>,
     restarts |-> UNDEF, pausedFor |-> UNDEF]

\* Some actor has stored state at a keyframe id greater than 0.
SomePositive(s) ==
    \E k \in DOMAIN s.keyframes : k > 0 /\ \E a \in DOMAIN s.keyframes[k] : HasState(s, k, a)

\* The effect of a timeline operation with result r on the variables; cost
\* is what the operation takes from the budget of the run.
Applied(op, r, cost) ==
    /\ hist.ops + cost <= MaxOps
    /\ inst' = r.st
    /\ lastErr' = r.err
    /\ lastCall' = op
    /\ fired' = <<>>
    /\ hist' = [hist EXCEPT !.ops = @ + cost,
                            !.positive = @ \/ SomePositive(r.st)]
    /\ UNCHANGED <<now, timers>>

InitStore ==
    /\ inst = NewInst(1000)
    /\ now = 1
    /\ timers = EmptyMap
    /\ lastCall = "kapi"
    /\ lastErr = ""
    /\ fired = <<>>
    /\ hist = NoHist

Add(a, initialState) ==
    /\ ~Has(inst.actors, a)
    /\ Applied("add", Ok(add(inst, a, initialState)), 0)

Keyframe(a, id, stateObj) ==
    /\ Has(inst.actors, a)
    /\ Applied("keyframe", keyframe(inst, a, id, stateObj), 1)

UpdateKeyframe(a, id, newProps) ==
    /\ Has(inst.actors, a)
    /\ Applied("updateKeyframe", updateKeyframe(inst, a, id, newProps), 1)

LiveCopy(a, id, idToCopy) ==
    /\ Has(inst.actors, a)
    /\ Applied("liveCopy", liveCopy(inst, a, id, idToCopy), 1)

Remove(a, id) ==
    /\ Has(inst.actors, a)
    /\ Applied("remove", remove(inst, a, id), 1)

RemoveAll(a) ==
    /\ Has(inst.actors, a)
    /\ Applied("removeAll", removeAll(inst, a), 1)

RemoveActor(a) ==
    /\ Applied("removeActor", removeActor(inst, a), 1)

Framerate(newFramerate) ==
    /\ Applied("framerate", framerate(inst, newFramerate), 1)

MoveToLayer(a, layerId) ==
    /\ Has(inst.actors, a)
    /\ Applied("moveToLayer", moveToLayer(inst, a, layerId), 1)

NextStore ==
    \/ \E a \in ActorIds, b \in InitialStates : Add(a, b)
    \/ \E id \in KeyframeArgs, b \in StateBags : Keyframe(MainActor, id, b)
    \/ \E a \in ActorIds \ {MainActor}, id \in FrameArgs : Keyframe(a, id, EmptyMap)
    \/ \E id \in FrameArgs, b \in NewProps : UpdateKeyframe(MainActor, id, b)
    \/ \E id \in FrameArgs \cup {Frame(-1)}, c \in FrameArgs : LiveCopy(MainActor, id, c)
    \/ \E a \in ActorIds, id \in FrameArgs : Remove(a, id)
    \/ \E a \in ActorIds : RemoveAll(a)
    \/ \E a \in ActorIds : RemoveActor(a)
    \/ \E f \in FrameRates \cup {0} : Framerate(f)

SpecStore == InitStore /\ [][NextStore]_vars

\* Keyframes given by time literals, at either frame rate: the engine is
\* made with the frame rate, the main actor is added, and keyframes are
\* placed at "<n>ms" and "<n>s" as well as at frame numbers.
LiteralArgs == {Lit(n, "ms") : n \in 0..(MaxKeyframe + 1)} \cup {Lit(1, "s")}

InitIds ==
    /\ \E fps \in FrameRates : inst = add(NewInst(fps), MainActor, [x |-> Num(0)])
    /\ now = 1
    /\ timers = EmptyMap
    /\ lastCall = "add"
    /\ lastErr = ""
    /\ fired = <<>>
    /\ hist = NoHist

NextIds == \E id \in LiteralArgs \cup FrameArgs, b \in StateBags : Keyframe(MainActor, id, b)

SpecIds == InitIds /\ [][NextIds]_vars

----------------------------------------------------------------------------
(* Properties of the Timeline Store                                        *)

StrictlyIncreasing(seq) == \A i \in 1..(Len(seq) - 1) : seq[i] < seq[i + 1]

\* The actors the engine knows: the registered ones and whatever actor still
\* has an entry in a keyframe.
KnownActors ==
    (DOMAIN inst.actorstateIndex)
        \cup UNION {DOMAIN inst.keyframes[k] : k \in DOMAIN inst.keyframes}

\* The keyframe ids the engine knows, in either list or in the keyframe map.
KnownIds ==
    (DOMAIN inst.keyframes) \cup SeqSet(inst.keyframeIds)
        \cup UNION {SeqSet(inst.actorstateIndex[a].idx) : a \in DOMAIN inst.actorstateIndex}

ActorIdx(a) == IF Has(inst.actorstateIndex, a) THEN inst.actorstateIndex[a].idx ELSE <<>>

\* C8: once some actor has been given a keyframe with an id greater than 0,
\* keyframe id 0 is in the global keyframe list, whatever timeline operations
\* follow.
C8_KeyframeZeroStays == hist.positive => 0 \in SeqSet(inst.keyframeIds)

\* C8, the case: every state has been removed again and keyframe 0 is what
\* is left of the global list.
C8_Witness ==
    /\ hist.positive
    /\ lastCall \in {"remove", "removeAll", "removeActor"}
    /\ ~\E k \in KnownIds, a \in KnownActors : HasState(inst, k, a)
    /\ inst.keyframeIds = <<0>>

\* C9: the global id list is strictly increasing; every actor's id list is
\* strictly increasing and within the global list; an id other than 0 is in
\* the global list exactly when some actor has state at it; an actor has
\* state at an id exactly when the id is in the actor's list.
C9_ListsConsistent ==
    /\ StrictlyIncreasing(inst.keyframeIds)
    /\ \A a \in KnownActors :
          /\ StrictlyIncreasing(ActorIdx(a))
          /\ SeqSet(ActorIdx(a)) \subseteq SeqSet(inst.keyframeIds)
          /\ \A k \in KnownIds : HasState(inst, k, a) <=> k \in SeqSet(ActorIdx(a))
    /\ \A k \in KnownIds \ {0} :
          k \in SeqSet(inst.keyframeIds) <=> \E a \in KnownActors : HasState(inst, k, a)

\* C9, the case: two actors share a keyframe, one of them has been removed
\* from it and the keyframe is still in the global list for the other.
C9_Witness ==
    /\ lastCall = "remove"
    /\ lastErr = ""
    /\ \E k \in SeqSet(inst.keyframeIds) \ {0} :
          /\ HasState(inst, k, "b")
          /\ ~HasState(inst, k, "a")
          /\ Has(inst.actors, "a")
          /\ ActorIdx("a") # <<>>

\* C10 as stated: at every keyframe of an actor's list the stored state has
\* every property of the actor's initial parameter bag.
C10_EveryParamPresent ==
    \A a \in DOMAIN inst.actors : \A k \in SeqSet(ActorIdx(a)) :
        HasState(inst, k, a) => DOMAIN inst.actors[a].params \subseteq DOMAIN inst.keyframes[k][a]

\* C10, amended: at every keyframe of an actor's list the stored state has
\* every property of the actor's initial parameter bag other than the
\* special `data` property, which no keyframe carries.
C10_EveryParamButDataPresent ==
    \A a \in DOMAIN inst.actors : \A k \in SeqSet(ActorIdx(a)) :
        HasState(inst, k, a) =>
            (DOMAIN inst.actors[a].params) \ {"data"} \subseteq DOMAIN inst.keyframes[k][a]

\* C10, the case: a keyframe given without the property x, after a change of
\* the frame rate, carries x from the initial parameter bag.
C10_Witness ==
    /\ lastCall = "framerate"
    /\ lastErr = ""
    /\ \E k \in SeqSet(ActorIdx("a")) :
          /\ HasState(inst, k, "a")
          /\ Has(inst.originalStates, k) /\ Has(inst.originalStates[k], "a")
          /\ ~Has(inst.originalStates[k]["a"].props, "x")
          /\ Has(inst.keyframes[k]["a"], "x")

\* The frame numbers at which the main actor has state in engine s.
StateArgs(s) == {id \in FrameArgs : HasState(s, id.n, MainActor)}

\* The outcomes of the calls that (re)build an actor's keyframes, made on
\* the main actor in the current state with any of the arguments for which
\* the call is not refused (updateKeyframe of a keyframe that has state,
\* liveCopy of a source that has state).
BuildCalls ==
    IF ~Has(inst.actors, MainActor) THEN {}
    ELSE {keyframe(inst, MainActor, id, b) : id \in FrameArgs, b \in StateBags}
           \cup {updateKeyframe(inst, MainActor, id, b) : id \in StateArgs(inst), b \in NewProps}
           \cup {liveCopy(inst, MainActor, id, c) : id \in FrameArgs, c \in StateArgs(inst)}

\* Keyframe k of actor a is registered as a live copy.
IsLiveCopy(s, a, k) == Has(s.liveCopies, a) /\ Has(s.liveCopies[a], k)

\* A number or a colour; a colour is stored in its rgb() form.
IsStatic(v) == v.t \in {"num", "hex", "rgb"}
Stored(v) == IF isColorString(v) THEN hexToRGBStr(v) ELSE v

\* In engine s, the i-th keyframe of actor a holds, for every static
\* property that was not given at it, the value held by the keyframe before
\* it (by the parameter bag when it is the first).  `layer` is left out: it
\* is assigned by the engine, not by the caller.  A keyframe that is itself
\* a live copy holds the values of its source and is not looked at.
InheritsAt(s, a, i) ==
    LET index == s.actorstateIndex[a].idx
        k == index[i]
        from == IF i = 1 THEN s.actors[a].params
                ELSE IF HasState(s, index[i - 1], a) THEN s.keyframes[index[i - 1]][a]
                ELSE EmptyMap
        given == IF Has(s.originalStates, k) /\ Has(s.originalStates[k], a)
                 THEN DOMAIN s.originalStates[k][a].props ELSE {}
    IN (HasState(s, k, a) /\ ~IsLiveCopy(s, a, k)) =>
          \A p \in ((DOMAIN s.keyframes[k][a]) \cap (DOMAIN from)) \ (given \cup {"layer"}) :
              IsStatic(from[p]) => s.keyframes[k][a][p] = Stored(from[p])

Inherits(s, a) ==
    Has(s.actorstateIndex, a) =>
        \A i \in 1..Len(s.actorstateIndex[a].idx) : InheritsAt(s, a, i)

\* C11: after a keyframe, updateKeyframe or liveCopy call that returned,
\* every keyframe of the actor holds, for each static property not given at
\* it, the stored value of the actor's nearest earlier keyframe - a live copy
\* included - or the value of the initial parameter bag at the first one.
C11_MissingPropsInherited ==
    \A r \in BuildCalls : r.err = "" => Inherits(r.st, MainActor)

\* The live copies of the main actor registered in engine s whose own
\* keyframe and source keyframe both hold state of the actor.
LiveCopiesOf(s) ==
    IF ~Has(s.liveCopies, MainActor) THEN {}
    ELSE {k \in DOMAIN s.liveCopies[MainActor] :
             /\ HasState(s, k, MainActor)
             /\ HasState(s, s.liveCopies[MainActor][k].copyOf, MainActor)}

\* The keyframes live copy k of engine s depends on: itself, its source, and
\* the source of its source when that is a live copy too.
RECURSIVE Upstream(_, _, _)
Upstream(s, k, n) ==
    IF n = 0 \/ ~IsLiveCopy(s, MainActor, k) THEN {k}
    ELSE {k} \cup Upstream(s, s.liveCopies[MainActor][k].copyOf, n - 1)

\* The outcomes of the calls, made in engine s, after which live copy k is
\* to equal its source: keyframe and updateKeyframe on any keyframe of any
\* actor, liveCopy to any keyframe but k.
CallsAfterCopy(s, k) ==
    {keyframe(s, MainActor, id, b) : id \in FrameArgs, b \in StateBags}
      \cup {updateKeyframe(s, MainActor, id, b) : id \in StateArgs(s), b \in NewProps}
      \cup {liveCopy(s, MainActor, id, c) : id \in FrameArgs \ {Frame(k)}, c \in StateArgs(s)}
      \cup {keyframe(s, a, id, EmptyMap) : a \in (DOMAIN s.actors) \ {MainActor}, id \in FrameArgs}

\* The engines left by remove() of a keyframe that live copy k does not
\* depend on.
AfterUnrelatedRemove(s, k) ==
    {r.st : r \in {q \in {remove(s, MainActor, id) :
                              id \in FrameArgs \ {Frame(u) : u \in Upstream(s, k, MaxKeyframe)}} :
                     q.err = ""}}

\* In engine t the main actor's state at k is the same bag as at c.
SameState(t, k, c) ==
    /\ HasState(t, k, MainActor)
    /\ HasState(t, c, MainActor)
    /\ t.keyframes[k][MainActor] = t.keyframes[c][MainActor]

\* C12: for every registered live copy k of a keyframe c, after a keyframe,
\* updateKeyframe or liveCopy call on any actor - made at once, or after the
\* remove of a keyframe the copy does not depend on - the actor's state at k
\* equals its state at c, also when c is itself a live copy.
C12_LiveCopyEqualsSource ==
    \A k \in LiveCopiesOf(inst) :
        \A s \in {inst} \cup AfterUnrelatedRemove(inst, k) :
            \A r \in CallsAfterCopy(s, k) :
                r.err = "" => SameState(r.st, k, inst.liveCopies[MainActor][k].copyOf)

\* Every alias on record in engine s was made by a liveCopy call that
\* returned (a call that threw on a negative id has left none behind).
AliasesMade(s) ==
    \A a \in DOMAIN s.liveCopies : \A k \in DOMAIN s.liveCopies[a] : k >= 0

\* liveCopy(k, c) with outcome r did what it is for: it returned, the alias
\* is on record, k is in the actor's list and in the global list, and the
\* state at k is the state at c (for a source that is not itself a live
\* copy; C12 is about the chains).
LiveCopyMade(s, r, k, c) ==
    /\ r.err = ""
    /\ IsLiveCopy(r.st, MainActor, k)
    /\ r.st.liveCopies[MainActor][k].copyOf = c
    /\ k \in SeqSet(r.st.actorstateIndex[MainActor].idx)
    /\ k \in SeqSet(r.st.keyframeIds)
    /\ (~IsLiveCopy(s, MainActor, c) \/ k = c) => SameState(r.st, k, c)

\* C13: in every reachable state, liveCopy(k, c) with k >= 0 on an actor
\* that has state at c succeeds - also after earlier remove calls on the
\* actor: the alias is recorded, k is added to the actor's list and to the
\* global list, and the state at k equals the state at c.
C13_LiveCopySucceeds ==
    (Has(inst.actors, MainActor) /\ AliasesMade(inst)) =>
        \A id \in FrameArgs, c \in StateArgs(inst) :
            LiveCopyMade(inst, liveCopy(inst, MainActor, id, c), id.n, c.n)

\* The keyframes of the main actor that remove(c) is to take away in engine
\* s: c and the live copies that depend on it.
GoneWith(s, c) ==
    {k \in {id.n : id \in StateArgs(s)} : c \in Upstream(s, k, MaxKeyframe)}

\* remove(c) with outcome r took away what it is to take away and nothing
\* else, and left the other aliases on record, each copy still equal to its
\* source.
RemovedExactly(s, r, c) ==
    /\ r.err = ""
    /\ {id.n : id \in StateArgs(r.st)} = {id.n : id \in StateArgs(s)} \ GoneWith(s, c)
    /\ \A k \in LiveCopiesOf(s) \ GoneWith(s, c) :
          /\ IsLiveCopy(r.st, MainActor, k)
          /\ r.st.liveCopies[MainActor][k] = s.liveCopies[MainActor][k]
          /\ SameState(s, k, s.liveCopies[MainActor][k].copyOf)
                => SameState(r.st, k, s.liveCopies[MainActor][k].copyOf)

\* C14: remove(c) of a keyframe at which the actor has state removes, for
\* that actor, exactly c and every live copy of c, however many there are,
\* returns without error, and leaves the actor's other aliases registered
\* and their copies equal to their sources.
C14_RemoveCascades ==
    (Has(inst.actors, MainActor) /\ AliasesMade(inst)) =>
        \A c \in StateArgs(inst) : RemovedExactly(inst, remove(inst, MainActor, c), c.n)

\* C15: updateKeyframe(k, props) on a keyframe k that is a live copy throws
\* and leaves the engine as it was: the props are merged neither into the
\* state stored at k nor into its original state.
C15_LiveCopyNotEditable ==
    AliasesMade(inst) =>
        \A k \in LiveCopiesOf(inst), b \in NewProps :
            /\ updateKeyframe(inst, MainActor, Frame(k), b).err # ""
            /\ updateKeyframe(inst, MainActor, Frame(k), b).st = inst

\* C16: remove(k) and updateKeyframe(k, props) for a keyframe at which the
\* actor has no state, liveCopy(k, c) for a source c at which the actor has
\* no state, and removeActor(id) for an id that is not registered leave the
\* whole engine as it was.
C16_MissingIsNoOp ==
    /\ \A a \in DOMAIN inst.actors : \A id \in FrameArgs :
          ~HasState(inst, id.n, a) =>
              /\ remove(inst, a, id).st = inst
              /\ \A b \in NewProps : updateKeyframe(inst, a, id, b).st = inst
              /\ \A k \in FrameArgs : liveCopy(inst, a, k, id).st = inst
    /\ \A a \in ActorIds \ DOMAIN inst.actors : removeActor(inst, a).st = inst

\* C16, the case: the main actor was given a keyframe and a remove() that
\* followed found no state to remove - the keyframe is still there.
C16_Witness ==
    /\ lastCall = "remove"
    /\ lastErr = ""
    /\ hist.ops = 2
    /\ StateArgs(inst) # {}

\* The identifiers that are not valid: a negative frame number, a literal
\* with an unknown unit.
InvalidArgs == {id \in KeyframeArgs : id.n < 0 \/ id.unit \notin {"f", "ms", "s"}}

\* C17: a keyframe, liveCopy, updateKeyframe or remove call that is given an
\* invalid keyframe identifier leaves the engine - keyframes, id lists,
\* aliases, queues, duration - exactly as it was before the call.
C17_InvalidIdChangesNothing ==
    Has(inst.actors, MainActor) =>
        \A id \in InvalidArgs :
            /\ \A b \in StateBags : keyframe(inst, MainActor, id, b).st = inst
            /\ \A b \in NewProps : updateKeyframe(inst, MainActor, id, b).st = inst
            /\ remove(inst, MainActor, id).st = inst
            /\ \A c \in FrameArgs :
                  /\ liveCopy(inst, MainActor, id, c).st = inst
                  /\ liveCopy(inst, MainActor, c, id).st = inst

\* The frame nearest to the time a literal stands for at frame rate fps
\* (half a frame goes up, as Math.round has it); a frame number is itself.
NearestFrame(id, fps) ==
    IF id.unit = "ms" THEN (2 * id.n * fps + 1000) \div 2000
    ELSE IF id.unit = "s" THEN id.n * fps
    ELSE id.n

\* C18: at every frame rate and for every time literal, keyframe("<n>s")
\* places the keyframe at frame round(n * fps) and keyframe("<n>ms") at
\* round(n * fps / 1000), the nearest frame; a frame number is used as it
\* is.
C18_LiteralsRounded ==
    \A id \in LiteralArgs \cup FrameArgs :
        /\ _getRealKeyframe(inst, id).v = NearestFrame(id, inst.fps)
        /\ \A b \in StateBags :
              HasState(keyframe(inst, MainActor, id, b).st, NearestFrame(id, inst.fps), MainActor)

\* C19: after every keyframe, updateKeyframe, liveCopy, remove, removeAll,
\* removeActor and framerate call, lastKeyframe is the largest id of the
\* global keyframe list and the duration of the loop is
\* lastKeyframe * 1000 / fps at the current frame rate.
C19_DurationFollowsLastKeyframe ==
    (/\ lastCall \in {"keyframe", "updateKeyframe", "liveCopy", "remove", "removeAll",
                      "removeActor", "framerate"}
     /\ inst.keyframeIds # <<>>) =>
        /\ inst.lastKeyframe = Max(SeqSet(inst.keyframeIds))
        /\ inst.animationDuration * inst.fps = inst.lastKeyframe * 1000

\* The ids of the list seq, at frame rate f, all fall on whole frames at
\* frame rate g.
RescalesExactly(seq, f, g) == \A i \in 1..Len(seq) : (seq[i] * g) % f = 0

Rescaled(seq, f, g) == [i \in 1..Len(seq) |-> (seq[i] * g) \div f]

\* framerate(g) with outcome r, in engine s: the call returned, every id of
\* the global list and of each actor's list is the old id times g / fps,
\* and the loop lasts as many milliseconds as before.
RescaledBy(s, r, g) ==
    /\ r.err = ""
    /\ r.st.fps = g
    /\ r.st.keyframeIds = Rescaled(s.keyframeIds, s.fps, g)
    /\ \A a \in DOMAIN s.actorstateIndex :
          /\ Has(r.st.actorstateIndex, a)
          /\ r.st.actorstateIndex[a].idx = Rescaled(s.actorstateIndex[a].idx, s.fps, g)
    /\ r.st.animationDuration = s.animationDuration

\* C20: a change of the frame rate from f to g moves every keyframe id k to
\* k * g / f and leaves the duration of the loop in milliseconds unchanged.
C20_FramerateRescales ==
    (/\ inst.keyframeIds # <<>>
     /\ AliasesMade(inst)
     /\ inst.animationDuration * inst.fps = Last(inst.keyframeIds) * 1000) =>
        \A g \in FrameRates \ {inst.fps} :
            RescalesExactly(inst.keyframeIds, inst.fps, g) =>
                RescaledBy(inst, framerate(inst, g), g)

----------------------------------------------------------------------------
(* Property Resolver: the state of an actor at the current frame           *)
(*                                                                         *)
(* A number is the value record Num with numerator n and denominator d.    *)
(* The timelines that are played hold numbers, modifier strings applied to *)
(* numbers, colours, custom easing objects that hold a number and the name *)
(* of the actor's easing; a value of another type is not keyframeable and  *)
(* is copied from the "from" state by the closing extend().                *)

\* The value `null` returned for an actor that has no keyframe left.
NullBag == [null |-> Obj]

Abs(x) == IF x < 0 THEN 0 - x ELSE x

RECURSIVE Gcd(_, _)
Gcd(x, y) == IF y = 0 THEN x ELSE Gcd(y, x % y)

\* The number n / d in lowest terms.
Rat(n, d) ==
    With(Gcd(Abs(n), Abs(d)), LAMBDA g :
      [t |-> "num", op |-> "",
       n |-> ((IF d < 0 THEN -1 ELSE 1) * n) \div g,
       d |-> Abs(d) \div g])

\* A comparison of JavaScript numbers: false when either side is undefined
\* or NaN.
IsNumber(x) == x # UNDEF /\ x # NAN
Gt(x, y) == IsNumber(x) /\ IsNumber(y) /\ x > y
Lt(x, y) == IsNumber(x) /\ IsNumber(y) /\ x < y

\* The truth value of a number: undefined, NaN and 0 are false.
Truthy(x) == IsNumber(x) /\ x # 0

\* A modifier that is taken for the value itself.
ApplyModifier_Assign(op, original, amount) == Rat(amount, 1)

\* modifiers[modifier](original, amount)
ApplyModifier(op, original, amount) ==
    IF op = "+=" THEN Rat(original.n + amount * original.d, original.d)
    ELSE IF op = "-=" THEN Rat(original.n - amount * original.d, original.d)
    ELSE IF op = "*=" THEN Rat(original.n * amount, original.d)
    ELSE Rat(original.n, original.d * amount)

\* function isKeyframeableProp (prop)
isKeyframeableProp(v) == v.t = "num" \/ isDynamic(v) \/ isColorString(v)

\* function _getLatestKeyframeId (lookup); the result is an index from 0.
_getLatestKeyframeId(s, lookup) ==
    IF s.currentFrame = 0 THEN 0
    ELSE IF lookup # <<>> /\ Gt(s.currentFrame, Last(lookup)) THEN -1
    ELSE With({i \in 1..Len(lookup) : Lt(lookup[i], s.currentFrame)}, LAMBDA below :
           IF below # {} THEN Max(below) - 1 ELSE Len(lookup) - 1)

\* function _getNextKeyframeId (lookup, latestKeyframeId)
_getNextKeyframeId(lookup, latestKeyframeId) ==
    IF latestKeyframeId = Len(lookup) - 1 THEN latestKeyframeId ELSE latestKeyframeId + 1

\* function _calculateUncachedProperty (actorName, prop): the modifiers of
\* the keyframes up to the latest one, applied from index i on to currentVal.
RECURSIVE ApplyDynamics(_, _, _, _, _, _)
ApplyDynamics(s, a, prop, i, latestKeyframeId, currentVal) ==
    IF i > latestKeyframeId THEN currentVal
    ELSE With(s.keyframes[s.actorstateIndex[a].idx[i + 1]][a][prop], LAMBDA dynamicProp :
           ApplyDynamics(s, a, prop, i + 1, latestKeyframeId,
                         ApplyModifier(dynamicProp.op, currentVal, dynamicProp.n)))

_calculateUncachedProperty(s, a, prop) ==
    With(s.actorstateIndex[a].idx, LAMBDA stateIndex :
    With(_getLatestKeyframeId(s, stateIndex), LAMBDA latestKeyframeId :
    With({i \in 0..latestKeyframeId :
             ~isDynamic(s.keyframes[stateIndex[i + 1]][a][prop])}, LAMBDA statics :
      IF statics # {}
      THEN ApplyDynamics(s, a, prop, Max(statics) + 1, latestKeyframeId,
                         s.keyframes[stateIndex[Max(statics) + 1]][a][prop])
      ELSE ApplyDynamics(s, a, prop, 0, latestKeyframeId, s.actors[a].params[prop]))))

\* An object { easingName: value } given for a property, a plain string, and
\* a colour string with the channels r, g and b.  A colour is kept as one
\* number that lists its channels (each between -ChannelShift and
\* ChannelBase - ChannelShift, as the floored channels of an eased colour
\* may lie outside 0..255).
Eased(easingName, n) == [t |-> "ease", op |-> easingName, n |-> n, d |-> 1]
Str(str) == [t |-> "str", op |-> str, n |-> 0, d |-> 1]

ChannelBase == 1024
ChannelShift == 256

Colour(r, g, b) ==
    ((r + ChannelShift) * ChannelBase + (g + ChannelShift)) * ChannelBase + (b + ChannelShift)

\* function getRGBArr (str)
getRGBArr(v) ==
    << (v.n \div (ChannelBase * ChannelBase)) - ChannelShift,
       ((v.n \div ChannelBase) % ChannelBase) - ChannelShift,
       (v.n % ChannelBase) - ChannelShift >>

\* typeof prop
TypeOf(v) ==
    IF v.t = "num" THEN "number"
    ELSE IF IsString(v) THEN "string"
    ELSE IF v.t = "fn" THEN "function"
    ELSE "object"

\* for (easeProp in prop) { prop = prop[easeProp]; break; }
Unwrapped(v) == IF v.t = "ease" THEN [t |-> "num", op |-> "", n |-> v.n, d |-> v.d] ELSE v

\* The formulas of kapi.tween that the timelines name, and the name used
\* for a name that is not on record.
TweenNames == {"linear", "easeInQuad"}

KnownEasing(easing) == IF easing \in TweenNames THEN easing ELSE "linear"

\* options.currentFrame of _calculateCurrentFrameProps: not given, or the
\* number n / d.
NoOptions == [has |-> FALSE, n |-> 0, d |-> 1]
CurrentFrame(n, d) == [has |-> TRUE, n |-> n, d |-> d]

\* applyEase: (currentFrame || inst._currentFrame) >= previousKeyframe
EaseApplies(s, previousKeyframe, options) ==
    IF options.has /\ options.n # 0 THEN options.n >= previousKeyframe * options.d
    ELSE IsNumber(s.currentFrame) /\ s.currentFrame >= previousKeyframe

\* A formula that jumps to the value to reach.
tween_Step(easing, tn, td, currProp, nextProp, span) == nextProp

\* kapi.tween[easing](t, b, c, d) with t = tn / td, b = currProp,
\* c = nextProp - currProp and d = span:
\*   linear       c * t / d + b
\*   easeInQuad   c * (t / d) * (t / d) + b
tween(easing, tn, td, currProp, nextProp, span) ==
    IF easing = "easeInQuad"
    THEN Rat((nextProp.n * currProp.d - currProp.n * nextProp.d) * tn * tn
               + currProp.n * nextProp.d * td * td * span * span,
             currProp.d * nextProp.d * td * td * span * span)
    ELSE Rat((nextProp.n * currProp.d - currProp.n * nextProp.d) * tn
               + currProp.n * nextProp.d * td * span,
             currProp.d * nextProp.d * td * span)

\* function applyEase (easing, previousKeyframe, nextKeyframe, currProp,
\* nextProp, currentFrame), where the test of the frame has succeeded.
applyEase(s, easing, previousKeyframe, nextKeyframe, currProp, nextProp, options) ==
    With(IF nextKeyframe - previousKeyframe = 0 THEN 1
         ELSE nextKeyframe - previousKeyframe, LAMBDA span :
      IF options.has
      THEN tween(easing, options.n - previousKeyframe * options.d, options.d,
                 currProp, nextProp, span)
      ELSE tween(easing, s.currentFrame - previousKeyframe, 1, currProp, nextProp, span))

\* A rounding up in the place of Math.floor.
Floor_Up(v) == 0 - ((0 - v.n) \div v.d)

\* Math.floor of a number.
Floor(v) == v.n \div v.d

\* The colour blended across the states: every channel eased and floored.
EasedColour(s, easing, previousKeyframe, nextKeyframe, currProp, nextProp, options) ==
    With([i \in 1..3 |->
            Floor(applyEase(s, easing, previousKeyframe, nextKeyframe,
                            Num(getRGBArr(currProp)[i]), Num(getRGBArr(nextProp)[i]),
                            options))], LAMBDA ch :
      Rgb(Colour(ch[1], ch[2], ch[3])))

\* for-in over a state object visits the properties in the order in which
\* the object got them: those of the actor's initial state first.  The
\* initial states of the model name their properties in this order.
PropOrder == <<"x", "y", "color", "easing", "data", "layer">>

ForIn(bag) == SelectSeq(PropOrder, LAMBDA p : p \in DOMAIN bag)

\* _calculateCurrentFrameProps: the "from" value of a property, after the
\* custom easing object is opened and the cache is asked.
FromProp(s, a, fromState, keyProp) ==
    IF Has(s.keyframeCache[a].from, keyProp) THEN s.keyframeCache[a].from[keyProp]
    ELSE IF isDynamic(Unwrapped(fromState[keyProp]))
         THEN _calculateUncachedProperty(s, a, keyProp)
    ELSE Unwrapped(fromState[keyProp])

\* The properties whose "to" value carries a custom easing that is applied:
\* it is assigned to the variable `easing` of the function.
SetsEasing(s, a, fromState, toState, keyProp) ==
    /\ isKeyframeableProp(FromProp(s, a, fromState, keyProp))
    /\ Has(toState, keyProp)
    /\ toState[keyProp].t = "ease"

\* The value of the variable `easing` when the property at position i of
\* the for-in order is eased: the custom easing that was assigned last, at
\* this property or at one before it, or the easing the function was given.
EasingAt(s, a, fromState, toState, easing, i) ==
    With({j \in 1..i : SetsEasing(s, a, fromState, toState, ForIn(fromState)[j])},
         LAMBDA assigned :
      IF assigned = {} THEN KnownEasing(easing)
      ELSE KnownEasing(toState[ForIn(fromState)[Max(assigned)]].op))

\* function _calculateCurrentFrameProps for one property: the "from" and
\* "to" values after the cache, and the value at the current frame.  The
\* closing extend() fills in what was not computed from the "from" state; it
\* also puts the custom easing object of the "from" state in the place of a
\* computed 0.
ResolvedProp(s, a, fromState, toState, fromKeyframe, toKeyframe, keyProp, easing, options) ==
    With(FromProp(s, a, fromState, keyProp), LAMBDA fromProp :
    With(IF Has(s.keyframeCache[a].to, keyProp) THEN s.keyframeCache[a].to[keyProp]
         ELSE IF Has(toState, keyProp) /\ isDynamic(Unwrapped(toState[keyProp]))
              THEN ApplyModifier(toState[keyProp].op, fromProp, toState[keyProp].n)
         ELSE IF Has(toState, keyProp) THEN Unwrapped(toState[keyProp])
         ELSE Obj, LAMBDA toProp :
    With(IF ~isKeyframeableProp(fromProp) THEN fromState[keyProp]
         ELSE IF ~isKeyframeableProp(toProp) \/ TypeOf(fromProp) # TypeOf(toProp)
              THEN fromProp
         ELSE IF ~EaseApplies(s, fromKeyframe, options)
              THEN (IF isColorString(fromProp) THEN Str("rgb(NaN,NaN,NaN)")
                    ELSE fromState[keyProp])
         ELSE IF isColorString(fromProp) /\ isColorString(toProp)
              THEN EasedColour(s, easing, fromKeyframe, toKeyframe, fromProp, toProp, options)
         ELSE IF fromProp.t = "num" /\ toProp.t = "num"
              THEN applyEase(s, easing, fromKeyframe, toKeyframe, fromProp, toProp, options)
         ELSE fromProp, LAMBDA computed :
      [ cachesFrom |-> /\ ~Has(s.keyframeCache[a].from, keyProp)
                       /\ isDynamic(Unwrapped(fromState[keyProp])),
        fromProp |-> fromProp,
        cachesTo |-> /\ fromProp.t = "num"
                     /\ ~Has(s.keyframeCache[a].to, keyProp)
                     /\ Has(toState, keyProp) /\ isDynamic(Unwrapped(toState[keyProp])),
        toProp |-> toProp,
        value |-> IF fromState[keyProp].t = "ease" /\ computed.t = "num" /\ computed.n = 0
                  THEN fromState[keyProp]
                  ELSE computed ])))

\* function _calculateCurrentFrameProps (fromState, toState, fromKeyframe,
\* toKeyframe, easing, options), with the updates of the cache it makes.
_calculateCurrentFrameProps(s, a, fromState, toState, fromKeyframe, toKeyframe, easing, options) ==
    With([i \in 1..Len(ForIn(fromState)) |->
             ResolvedProp(s, a, fromState, toState, fromKeyframe, toKeyframe,
                          ForIn(fromState)[i],
                          EasingAt(s, a, fromState, toState, easing, i), options)],
         LAMBDA byPos :
    With([p \in DOMAIN fromState |->
             byPos[CHOOSE i \in 1..Len(ForIn(fromState)) : ForIn(fromState)[i] = p]],
         LAMBDA res :
      [ st |-> [s EXCEPT !.keyframeCache[a] =
                  [from |-> [p \in (DOMAIN @.from) \cup {q \in DOMAIN res : res[q].cachesFrom} |->
                                IF p \in DOMAIN @.from THEN @.from[p] ELSE res[p].fromProp],
                   to |-> [p \in (DOMAIN @.to) \cup {q \in DOMAIN res : res[q].cachesTo} |->
                                IF p \in DOMAIN @.to THEN @.to[p] ELSE res[p].toProp]]],
        props |-> [p \in DOMAIN fromState |-> res[p].value] ]))

\* state.easing: the name a state gives for the easing of the actor (the
\* name `undefined` when it gives none).
EasingOf(state) ==
    IF Has(state, "easing") /\ state["easing"].t = "str" THEN state["easing"].op
    ELSE "undefined"

\* _getActorState, from the update of the cache on: latestKeyframeId and
\* nextKeyframeId are indexes (from 0) into the actor's list.
ActorStateBetween(s, a, latestKeyframeId, nextKeyframeId) ==
    With(IF s.actorstateIndex[a].reachedKeyframes = <<>> THEN 0
         ELSE Last(s.actorstateIndex[a].reachedKeyframes), LAMBDA lastRecordedKeyframe :
    With(IF Has(s.keyframeCache, a) THEN s
         ELSE [s EXCEPT !.keyframeCache = Put(@, a, [from |-> EmptyMap, to |-> EmptyMap]),
                        !.actorstateIndex[a].reachedKeyframes = <<>>], LAMBDA s1 :
    With(IF latestKeyframeId > lastRecordedKeyframe
         THEN [s1 EXCEPT !.actorstateIndex[a].reachedKeyframes = Append(@, latestKeyframeId),
                         !.keyframeCache[a] = [from |-> @.to, to |-> EmptyMap]]
         ELSE s1, LAMBDA s2 :
      _calculateCurrentFrameProps(s2, a,
          s2.keyframes[s.actorstateIndex[a].idx[latestKeyframeId + 1]][a],
          s2.keyframes[s.actorstateIndex[a].idx[nextKeyframeId + 1]][a],
          s.actorstateIndex[a].idx[latestKeyframeId + 1],
          s.actorstateIndex[a].idx[nextKeyframeId + 1],
          EasingOf(s2.keyframes[s.actorstateIndex[a].idx[nextKeyframeId + 1]][a]),
          NoOptions))))

\* function _getActorState (actorName): the state of the actor at the
\* current frame (NullBag when no keyframe of the actor remains in the loop)
\* and the engine with the actor's cache and reached list brought up to date.
_getActorState(s, a) ==
    With(_getLatestKeyframeId(s, s.actorstateIndex[a].idx), LAMBDA latestKeyframeId :
      IF latestKeyframeId = -1 THEN [st |-> s, props |-> NullBag]
      ELSE IF /\ latestKeyframeId
                    = _getNextKeyframeId(s.actorstateIndex[a].idx, latestKeyframeId)
              /\ Gt(s.lastKeyframe, 0)
           THEN [st |-> s, props |-> NullBag]
      ELSE ActorStateBetween(s, a, latestKeyframeId,
               _getNextKeyframeId(s.actorstateIndex[a].idx, latestKeyframeId)))

\* An event fired, an actor drawn, a handler of an Immediate Action called
\* (h is the handler that was passed to to()) and an exception that ended
\* the call in progress.
Ev(name) == [e |-> name, a |-> "", h |-> 0]
Drawn(a) == [e |-> "draw", a |-> a, h |-> 0]
HandlerCalled(name, a, h) == [e |-> name, a |-> a, h |-> h]
Thrown(name) == [e |-> name, a |-> "", h |-> -1]

\* The engine together with the timers of the page and the events fired by
\* the call in progress.
World(s, tm, ev) == [st |-> s, tm |-> tm, ev |-> ev]

\* The call in progress has thrown: nothing more of it is executed.
Threw(w) == w.ev # <<>> /\ Last(w.ev).h = -1

CountEv(ev, name) == Cardinality({i \in 1..Len(ev) : ev[i].e = name})

\* function _fireEvent (eventName)
_fireEvent(w, eventName) == [w EXCEPT !.ev = Append(@, Ev(eventName))]

----------------------------------------------------------------------------
(* Immediate Actions                                                       *)
(*                                                                         *)
(* An entry of an actor's queue is the object pushed by to() with its      *)
(* _internals.  events.start and events.complete are the handlers passed   *)
(* (NoHandler when none was, or when the engine has deleted it); every     *)
(* to() call is handed an events object of its own.  `null` in startTime   *)
(* and pauseBufferUpdated is UNDEF, in pauseBuffer it is 0 (the only use   *)
(* of the field is in sums), in fromState and toState it is NullBag.       *)

NoHandler == 0

Events(start, complete) == [start |-> start, complete |-> complete]

NewAction(duration, stateObj, events) ==
    [ hole |-> FALSE,
      duration |-> duration,
      state |-> stateObj,
      events |-> events,
      startTime |-> UNDEF,
      fromState |-> NullBag,
      toState |-> NullBag,
      pauseBuffer |-> 0,
      pauseBufferUpdated |-> UNDEF,
      forceStop |-> FALSE ]

\* The entry `undefined` that an array gets when its length is raised.
Hole == [NewAction(0, EmptyMap, Events(NoHandler, NoHandler)) EXCEPT !.hole = TRUE]

\* A to() that puts the action at the front of the queue.
to_Front(s, a, duration, stateObj, events) ==
    With(_getRealKeyframe(s, duration), LAMBDA rk :
      IF rk.err # "" THEN R(s, rk.err)
      ELSE Ok([s EXCEPT !.actorstateIndex[a].queue =
                            <<NewAction(rk.v, stateObj, events)>> \o @]))

\* actorObj.to = function to (duration, stateObj, events)
to(s, a, duration, stateObj, events) ==
    With(_getRealKeyframe(s, duration), LAMBDA rk :
      IF rk.err # "" THEN R(s, rk.err)
      ELSE Ok([s EXCEPT !.actorstateIndex[a].queue =
                            Append(@, NewAction(rk.v, stateObj, events))]))

\* actorObj.clearQueue = function clearQueue (): queue.length = 1
clearQueue(s, a) ==
    Ok([s EXCEPT !.actorstateIndex[a].queue =
                     IF @ = <<>> THEN <<Hole>> ELSE <<Head(@)>>])

\* actorObj.skipToEnd = function skipToEnd ()
skipToEnd(s, a) ==
    IF s.actorstateIndex[a].queue = <<>> THEN Ok(s)
    ELSE IF s.actorstateIndex[a].queue[1].hole THEN R(s, "TypeError")
    ELSE Ok([s EXCEPT !.actorstateIndex[a].queue[1].forceStop = TRUE])

\* actorObj.getState = function getState ()
getState(s, a) ==
    IF Has(s.currentState, a) /\ s.currentState[a] # NullBag /\ s.currentState[a] # UndefBag
    THEN s.currentState[a] ELSE EmptyMap

\* actorObj.endCurrentAction = function endCurrentAction ()
endCurrentAction(s, a) ==
    IF s.actorstateIndex[a].queue = <<>> THEN Ok(s)
    ELSE IF s.actorstateIndex[a].queue[1].hole THEN R(s, "TypeError")
    ELSE skipToEnd([s EXCEPT !.actorstateIndex[a].queue[1].toState = getState(s, a)], a)

\* _getQueuedActionState, first part: the _internals of the action at the
\* head of the queue brought up to date at the time currTime.
InternalsAt(s, queuedAction, currTime) ==
    With([queuedAction EXCEPT
            !.startTime = IF @ = UNDEF THEN currTime ELSE @,
            !.pauseBufferUpdated = IF Truthy(@) THEN @ ELSE currTime], LAMBDA q1 :
    With(IF Lt(q1.pauseBufferUpdated, s.pausedAtTime)
         THEN [q1 EXCEPT !.pauseBuffer = @ + (currTime - s.pausedAtTime),
                         !.pauseBufferUpdated = currTime]
         ELSE q1, LAMBDA q2 :
      IF q2.toState = NullBag
      THEN [q2 EXCEPT !.toState = extend(extend(EmptyMap, q2.fromState, FALSE),
                                         q2.state, TRUE)]
      ELSE q2))

\* internals.currFrame
ActionFrame(s, queuedAction, currTime) ==
    IF queuedAction.forceStop THEN CurrentFrame(queuedAction.duration + 1, 1)
    ELSE CurrentFrame((currTime - (queuedAction.startTime + queuedAction.pauseBuffer)) * s.fps,
                      1000)

\* internals.currFrame > queuedAction.duration
ActionIsOver(queuedAction, currFrame) == currFrame.n > queuedAction.duration * currFrame.d

\* function _getQueuedActionState (queuedActionsArr, actorName): the world
\* with the head of the actor's queue brought up to date, or shifted off
\* after its complete handler was called, and the properties of the action
\* at the time currTime.
_getQueuedActionState(w, actorName, currTime) ==
    With(InternalsAt(w.st, w.st.actorstateIndex[actorName].queue[1], currTime), LAMBDA q :
    With(ActionFrame(w.st, q, currTime), LAMBDA currFrame :
    With(IF ActionIsOver(q, currFrame)
         THEN [w EXCEPT !.st.actorstateIndex[actorName].queue = Tail(@),
                        !.ev = IF q.events.complete # NoHandler
                               THEN Append(@, HandlerCalled("complete", actorName,
                                                            q.events.complete))
                               ELSE @]
         ELSE [w EXCEPT !.st.actorstateIndex[actorName].queue[1] = q], LAMBDA w1 :
    With(_calculateCurrentFrameProps(w1.st, actorName, q.fromState, q.toState,
                                     0, q.duration, EasingOf(q.fromState), currFrame),
         LAMBDA r :
      [w |-> [w1 EXCEPT !.st = r.st], props |-> r.props]))))

\* _updateActors, for an actor that has a state at the current frame and a
\* queue that is not empty: the start handler, the "from" state, the state
\* of the action laid over currentFrameStateProperties and, when the action
\* was shifted off the queue, the state saved "to the most recent keyframe
\* for this object".  The "from" state of an action that begins is the very
\* object currentFrameStateProperties, so it is overwritten with it.
ApplyQueuedAction(w, actorName, currentFrameStateProperties, currTime) ==
    With(w.st.actorstateIndex[actorName].queue, LAMBDA objActionQueue :
      IF objActionQueue[1].hole
      THEN [w |-> [w EXCEPT !.ev = Append(@, Thrown("TypeError"))],
            props |-> currentFrameStateProperties]
      ELSE
    With(objActionQueue[1].fromState = NullBag, LAMBDA begins :
    With([w EXCEPT
            !.ev = IF objActionQueue[1].events.start # NoHandler
                   THEN Append(@, HandlerCalled("start", actorName,
                                                objActionQueue[1].events.start))
                   ELSE @,
            !.st.actorstateIndex[actorName].queue[1] =
                [@ EXCEPT !.events.start = NoHandler,
                          !.fromState = IF begins THEN currentFrameStateProperties ELSE @]],
         LAMBDA w1 :
    With(_getQueuedActionState(w1, actorName, currTime), LAMBDA qa :
    With(extend(currentFrameStateProperties, qa.props, TRUE), LAMBDA adjusted :
      IF Len(qa.w.st.actorstateIndex[actorName].queue) # Len(objActionQueue)
      THEN With(_getLatestKeyframeId(qa.w.st, qa.w.st.actorstateIndex[actorName].idx),
                LAMBDA keyframeToModify :
             IF ~Has(qa.w.st.keyframes, qa.w.st.keyframeIds[keyframeToModify + 1])
             THEN [w |-> [qa.w EXCEPT !.ev = Append(@, Thrown("TypeError"))],
                   props |-> adjusted]
             ELSE [w |-> [qa.w EXCEPT
                            !.st.keyframes[qa.w.st.keyframeIds[keyframeToModify + 1]] =
                                Put(@, actorName, adjusted)],
                   props |-> adjusted])
      ELSE [w |-> IF begins
                  THEN [qa.w EXCEPT !.st.actorstateIndex[actorName].queue[1].fromState =
                                        adjusted]
                  ELSE qa.w,
            props |-> adjusted])))))

\* function _updateActors (currentFrame): the loop over inst._layerIndex
\* from position i on.  currentFrameStateProperties is declared outside the
\* loop and keeps the value of the previous actor when an actor is skipped.
RECURSIVE UpdateActorsFrom(_, _, _, _, _)
UpdateActorsFrom(w, currentFrame, i, currentFrameStateProperties, currTime) ==
    IF i > Len(w.st.layerIndex) \/ Threw(w) THEN w
    ELSE
      With(w.st.layerIndex[i], LAMBDA actorName :
      With(/\ w.st.actorstateIndex[actorName].idx # <<>>
           /\ IsNumber(currentFrame)
           /\ currentFrame >= w.st.actorstateIndex[actorName].idx[1], LAMBDA visible :
      With(IF visible THEN _getActorState(w.st, actorName)
           ELSE [st |-> w.st, props |-> currentFrameStateProperties], LAMBDA r :
      With(IF visible /\ r.props # NullBag /\ r.st.actorstateIndex[actorName].queue # <<>>
           THEN ApplyQueuedAction([w EXCEPT !.st = r.st], actorName, r.props, currTime)
           ELSE [w |-> [w EXCEPT !.st = r.st], props |-> r.props], LAMBDA q :
        IF Threw(q.w) THEN q.w
        ELSE UpdateActorsFrom(
               [q.w EXCEPT !.st.currentState = Put(@, actorName, q.props),
                           !.ev = IF visible /\ q.props # NullBag
                                  THEN Append(@, Drawn(actorName)) ELSE @],
               currentFrame, i + 1, q.props, currTime)))))

\* An update that goes through the layers a second time.
_updateActors_Twice(w, currentFrame, currTime) ==
    UpdateActorsFrom(UpdateActorsFrom(w, currentFrame, 1, UndefBag, currTime),
                     currentFrame, 1, UndefBag, currTime)

_updateActors(w, currentFrame, currTime) ==
    UpdateActorsFrom(w, currentFrame, 1, UndefBag, currTime)

----------------------------------------------------------------------------
(* Tick Driver                                                             *)
(*                                                                         *)
(* setTimeout hands out a handle that no pending timer carries and that is *)
(* not the handle the engine still remembers (a browser never hands out a  *)
(* handle twice).  inst.frameCount is only ever incremented and is left    *)
(* out.  inst._puppets holds the engines made by puppetCreate (with        *)
(* puppetsOrder the order of its keys, which for-in follows); such an      *)
(* engine has inst._params.isPuppet set.  The canvas is not modelled, so   *)
(* the arguments frameWasCleared and masterAutoclear of updateState are    *)
(* left out.                                                               *)

\* isPlaying: function ()
isPlaying(s) == s.isStopped = "false" /\ s.isPaused = "false"

FreshHandle(w) ==
    Min({h \in 0..(MaxTimers + 3) : h \notin DOMAIN w.tm /\ h # w.st.updateHandle})

\* clearTimeout(handle)
clearTimeout(w, handle) == [w EXCEPT !.tm = Del(@, handle)]

\* function _scheduleUpdate ()
_scheduleUpdate(w, currTime) ==
    [w EXCEPT !.tm = Put(@, FreshHandle(w), currTime + 1000 \div w.st.fps),
              !.st.updateHandle = FreshHandle(w)]

\* A play() that sets a timer on a puppet too.
ScheduleUnlessPuppet_Always(w, currTime) == _scheduleUpdate(w, currTime)

\* play: if (!inst._params.isPuppet) { _scheduleUpdate(); }
ScheduleUnlessPuppet(w, currTime) ==
    IF w.st.isPuppet THEN w ELSE _scheduleUpdate(w, currTime)

\* play, past the test of isPlaying(): the flags, the timestamps (shifted by
\* the length of the pause on a resume, set on a fresh start), the first
\* timer and the events.
PlayBody(w, currTime) ==
    With([w.st EXCEPT !.isStopped = "false", !.isPaused = "false",
                      !.startTime = IF Truthy(@) THEN @ ELSE currTime], LAMBDA s1 :
    With(IF IsNumber(s1.pausedAtTime) THEN currTime - s1.pausedAtTime ELSE NAN,
         LAMBDA pauseDuration :
      _fireEvent(
        ScheduleUnlessPuppet(
          IF Truthy(s1.loopStartTime)
          THEN [w EXCEPT !.st = [s1 EXCEPT
                   !.loopStartTime = IF pauseDuration = NAN THEN NAN ELSE @ + pauseDuration,
                   !.startTime = IF pauseDuration = NAN THEN NAN ELSE @ + pauseDuration]]
          ELSE [_fireEvent([w EXCEPT !.st = _updateAnimationDuration(
                               [s1 EXCEPT !.loopStartTime = currTime])],
                           "loopStart")
                  EXCEPT !.st.currentFrame = 0],
          currTime),
        "onPlay")))

\* A play() that does not look at isPlaying() first.
play_Unguarded(w, currTime) == PlayBody(w, currTime)

\* play: function (playPuppets)
play(w, currTime) == IF isPlaying(w.st) THEN w ELSE PlayBody(w, currTime)

\* pause: function (pausePuppets)
pause(w, currTime) ==
    _fireEvent([clearTimeout(w, w.st.updateHandle)
                  EXCEPT !.st.pausedAtTime = currTime, !.st.isPaused = "true"],
               "onPause")

\* stop: function (stopPuppets)
stop(w) ==
    _fireEvent(
      [clearTimeout(w, w.st.updateHandle) EXCEPT !.st = [@ EXCEPT
          !.loopStartTime = UNDEF,
          !.startTime = UNDEF,
          !.pausedAtTime = UNDEF,
          !.isStopped = "true",
          !.repsRemaining = -1,
          !.keyframeCache = EmptyMap,
          !.actorstateIndex = [a \in DOMAIN @ |->
              [@[a] EXCEPT !.queue = <<>>, !.reachedKeyframes = <<>>]]]],
      "onStop")

\* repeat: function (repetitions, callback); callback is whether a function
\* was passed.
repeat(w, currTime, repetitions, callback) ==
    IF repetitions >= -1
    THEN play([w EXCEPT !.st.repeatCompleteHandler = callback,
                        !.st.repsRemaining = repetitions + 1], currTime)
    ELSE play([w EXCEPT !.st.repsRemaining = -1], currTime)

\* An iterate() that hands its argument to repeat() as it is.
iterate_SameAsRepeat(w, currTime, iterations, callback) ==
    IF iterations >= -1
    THEN play(repeat(w, currTime, iterations, callback), currTime)
    ELSE play(w, currTime)

\* iterate: function (iterations, callback)
iterate(w, currTime, iterations, callback) ==
    IF iterations >= -1
    THEN play(repeat(w, currTime, iterations - 1, callback), currTime)
    ELSE play(w, currTime)

\* A method of the puppet p called with the timers of the page and the
\* events of the call in progress.
OnPuppet(w, p, F(_)) ==
    With(F(World(w.st.puppets[p], w.tm, w.ev)), LAMBDA pw :
      [w EXCEPT !.st.puppets[p] = pw.st, !.tm = pw.tm, !.ev = pw.ev])

\* The call of updateState that the owner makes on the puppet p.
Forwarded(p) == [e |-> "updateState", a |-> p, h |-> 0]

\* kapi.sequence.js, actorTemplate.draw: the callback handed to
\* puppetInst.iterate(1, function () { actorInst.data().state = 0; }), which
\* the puppet of the sequence q calls when its iteration has run out: w0 is
\* the world before the puppet was updated, w1 the world after.
IterateCallback(w0, w1, q) ==
    IF Has(w1.st.sequences, q)
         /\ CountEv(w1.ev, "repeatComplete") > CountEv(w0.ev, "repeatComplete")
    THEN [w1 EXCEPT !.st.sequences[q].state = 0]
    ELSE w1

\* _callMethodOnAllPuppets('updateState', ...), from position i of the
\* puppets on.
RECURSIVE _updateState(_, _, _)
RECURSIVE UpdatePuppetsFrom(_, _, _)
UpdatePuppetsFrom(w, i, currTime) ==
    IF i > Len(w.st.puppetsOrder) \/ Threw(w) THEN w
    ELSE UpdatePuppetsFrom(
           IterateCallback(w,
             OnPuppet([w EXCEPT !.ev = Append(@, Forwarded(w.st.puppetsOrder[i]))],
                      w.st.puppetsOrder[i],
                      LAMBDA pw : _updateState(pw, currTime, "none").w),
             w.st.puppetsOrder[i]),
           i + 1, currTime)

\* redraw: function (), with _callMethodOnAllPuppets('redraw') from
\* position i of the puppets on.
RECURSIVE redraw(_, _)
RECURSIVE RedrawPuppetsFrom(_, _, _)
RedrawPuppetsFrom(w, i, currTime) ==
    IF i > Len(w.st.puppetsOrder) \/ Threw(w) THEN w
    ELSE RedrawPuppetsFrom(
           OnPuppet(w, w.st.puppetsOrder[i], LAMBDA pw : redraw(pw, currTime)),
           i + 1, currTime)

redraw(w, currTime) ==
    RedrawPuppetsFrom(_updateActors(w, w.st.currentFrame, currTime), 1, currTime)

\* puppetCreate: function (puppetName, events)
puppetCreate(s, puppetName) ==
    IF puppetName = "" THEN R(s, "Puppet name not specified.")
    ELSE Ok([s EXCEPT !.puppets = Put(@, puppetName,
                                      [NewInst(s.fps) EXCEPT !.isPuppet = TRUE]),
                      !.puppetsOrder = IF puppetName \in SeqSet(@) THEN @
                                       ELSE Append(@, puppetName)])

\* gotoFrame: function (frame): the per-actor part, for the actors of
\* inst._actors from position i on.
RECURSIVE GotoFrameActors(_, _)
GotoFrameActors(s, i) ==
    IF i > Len(s.actorsOrder) THEN s
    ELSE GotoFrameActors(
           [s EXCEPT !.keyframeCache = Put(@, s.actorsOrder[i], [from |-> EmptyMap, to |-> EmptyMap]),
                     !.actorstateIndex[s.actorsOrder[i]].reachedKeyframes =
                         Append(@, _getLatestKeyframeId(s, s.actorstateIndex[s.actorsOrder[i]].idx))],
           i + 1)

\* gotoFrame, from the assignment to `frame` on; the engine is not playing.
\* The call of redraw() on the owner that a puppet ends with is made by
\* PuppetGotoFrame.
GotoFrameStopped(w, currTime, id) ==
    With(IF Gt(w.st.lastKeyframe, 0)
         THEN _getRealKeyframe(w.st, id).v % w.st.lastKeyframe ELSE NAN, LAMBDA frame :
    With([w.st EXCEPT
            !.currentFrame = frame,
            !.loopStartTime = IF frame = NAN THEN NAN ELSE currTime - frame * (1000 \div w.st.fps),
            !.startTime = IF frame = NAN THEN NAN ELSE currTime - frame * (1000 \div w.st.fps),
            !.pausedAtTime = currTime], LAMBDA s1 :
      UpdatePuppetsFrom(
        _updateActors(
          [w EXCEPT !.st = GotoFrameActors(
              [s1 EXCEPT !.reachedKeyframes =
                             SubSeq(s1.keyframeIds, 1, _getLatestKeyframeId(s1, s1.keyframeIds) + 1),
                         !.keyframeCache = EmptyMap], 1)],
          frame, currTime),
        1, currTime)))

\* gotoFrame: function (frame)
gotoFrame(w, currTime, id) ==
    GotoFrameStopped(IF isPlaying(w.st) THEN stop(w) ELSE w, currTime, id)

\* gotoAndPlay: function (frame)
gotoAndPlay(w, currTime, id) ==
    With(gotoFrame(w, currTime, id), LAMBDA w1 :
      IF Threw(w1) THEN w1 ELSE play(w1, currTime))

\* gotoFrame on the puppet p of the engine: if (inst._params.isPuppet) {
\* inst._params.master.redraw(); }
PuppetGotoFrame(w, p, currTime, id) ==
    With(OnPuppet(w, p, LAMBDA pw : gotoFrame(pw, currTime, id)), LAMBDA w1 :
      IF Threw(w1) THEN w1 ELSE redraw(w1, currTime))

\* gotoAndPlay on the puppet p of the engine.
PuppetGotoAndPlay(w, p, currTime, id) ==
    With(PuppetGotoFrame(w, p, currTime, id), LAMBDA w1 :
      IF Threw(w1) THEN w1 ELSE OnPuppet(w1, p, LAMBDA pw : play(pw, currTime)))

----------------------------------------------------------------------------
(* Sequences (ext/sequence/kapi.sequence.js)                               *)
(*                                                                         *)
(* A sequence named q is a puppet of the engine and an actor of the engine *)
(* with the same name ('_sequence.' + sequenceName in the source).         *)
(* inst.sequences[q] is the data of that actor: state (0 = has not started *)
(* playing, 1 = has started playing, 2 = has played and been stopped),     *)
(* startingKeyframeId and endingKeyframeId.  The actor's draw routine and  *)
(* the handlers bound to the engine's onPlay, onPause, onStop and          *)
(* loopComplete events call the puppet.                                    *)

\* A call that the sequence q makes on its puppet.
SequenceCall(name, q) == [e |-> name, a |-> q, h |-> 0]

\* masterPlayHandler
masterPlayHandler(w, q, currTime) ==
    With(w.st.currentFrame, LAMBDA masterFrame :
    With(IF Len(w.st.actorstateIndex[q].idx) >= 2 THEN w.st.actorstateIndex[q].idx[2]
         ELSE UNDEF, LAMBDA puppetStartFrame :
      IF IsNumber(masterFrame) /\ IsNumber(puppetStartFrame)
           /\ masterFrame >= puppetStartFrame
      THEN [OnPuppet([w EXCEPT !.ev = Append(@, SequenceCall("sequence.play", q))], q,
                     LAMBDA pw : play(pw, currTime))
              EXCEPT !.st.sequences[q].state = 1]
      ELSE w))

\* masterPauseHandler
masterPauseHandler(w, q, currTime) ==
    OnPuppet([w EXCEPT !.ev = Append(@, SequenceCall("sequence.pause", q))], q,
             LAMBDA pw : pause(pw, currTime))

\* masterStopHandler
masterStopHandler(w, q) ==
    OnPuppet([w EXCEPT !.ev = Append(@, SequenceCall("sequence.stop", q))], q,
             LAMBDA pw : stop(pw))

\* masterLoopComplete, for every sequence of the engine.
masterLoopComplete(sequences) ==
    [q \in DOMAIN sequences |->
        IF sequences[q].state = 2 THEN [sequences[q] EXCEPT !.state = 0]
        ELSE sequences[q]]

\* The sequences of the engine, in the order in which they were created.
SequenceOrder(s) == SelectSeq(s.puppetsOrder, LAMBDA q : Has(s.sequences, q))

\* The handlers that the sequences have bound to the event eventName, which
\* the engine has just fired, from the i-th sequence on.
RECURSIVE BoundHandlersFrom(_, _, _, _)
BoundHandlersFrom(w, eventName, i, currTime) ==
    IF i > Len(SequenceOrder(w.st)) \/ Threw(w) THEN w
    ELSE With(SequenceOrder(w.st)[i], LAMBDA q :
           BoundHandlersFrom(
             IF eventName = "onPlay" THEN masterPlayHandler(w, q, currTime)
             ELSE IF eventName = "onPause" THEN masterPauseHandler(w, q, currTime)
             ELSE IF eventName = "onStop" THEN masterStopHandler(w, q)
             ELSE w,
             eventName, i + 1, currTime))

\* actorTemplate.draw of the sequence q.
SequenceDraw(w, q, currTime) ==
    With(w.st.sequences[q], LAMBDA data :
      IF IsNumber(w.st.currentFrame) /\ IsNumber(data.startingKeyframeId)
           /\ data.startingKeyframeId <= w.st.currentFrame + 1 /\ data.state < 1
      THEN [OnPuppet([w EXCEPT !.ev = Append(@, SequenceCall("sequence.iterate", q))], q,
                     LAMBDA pw : iterate(pw, currTime, 1, TRUE))
              EXCEPT !.st.sequences[q].state = 1]
      ELSE IF IsNumber(w.st.currentFrame) /\ IsNumber(data.endingKeyframeId)
                /\ data.endingKeyframeId <= w.st.currentFrame + 1 /\ data.state < 2
      THEN [masterStopHandler(w, q) EXCEPT !.st.sequences[q].state = 2]
      ELSE w)

\* The draw routines of the sequences that _updateActors has drawn in the
\* tick in progress, from the i-th sequence on.  A draw routine touches the
\* sequence and its puppet only, which nothing else reads before the engine
\* has drawn all its actors.
RECURSIVE SequencesDrawnFrom(_, _, _)
SequencesDrawnFrom(w, i, currTime) ==
    IF i > Len(SequenceOrder(w.st)) \/ Threw(w) THEN w
    ELSE With(SequenceOrder(w.st)[i], LAMBDA q :
           SequencesDrawnFrom(
             IF CountEv(SelectSeq(w.ev, LAMBDA x : x.a = q), "draw") > 0
             THEN SequenceDraw(w, q, currTime) ELSE w,
             i + 1, currTime))

\* sequence._create, with the timeline that the `sequence` function gives
\* the puppet: puppetTimeline is the puppet after it.
sequenceCreate(s, q, puppetTimeline) ==
    With([puppetCreate(s, q).st EXCEPT
             !.puppets[q] = [puppetTimeline EXCEPT !.isPuppet = TRUE]], LAMBDA s1 :
    With(keyframe(add(s1, q, [x |-> Num(0)]), q, Frame(0), EmptyMap).st, LAMBDA s2 :
      [s2 EXCEPT !.sequences = Put(@, q, [state |-> 0,
                                          startingKeyframeId |-> UNDEF,
                                          endingKeyframeId |-> UNDEF])]))

\* validateKeyframeId, for a keyframe id given as a number.
validateKeyframeId(keyframeId) == IF keyframeId = 0 THEN 1 ELSE keyframeId

\* sequence._startAt
sequenceStartAt(s, q, keyframeId) ==
    [keyframe(s, q, Frame(validateKeyframeId(keyframeId)), [x |-> Num(1)]).st
       EXCEPT !.sequences[q].startingKeyframeId = validateKeyframeId(keyframeId)]

\* sequence._endAt
sequenceEndAt(s, q, keyframeId) ==
    [keyframe(s, q, Frame(validateKeyframeId(keyframeId)), [x |-> Num(-1)]).st
       EXCEPT !.sequences[q].endingKeyframeId = validateKeyframeId(keyframeId)]

\* What a handler of the enterFrame event does: nothing, or a call of
\* pause(), stop() or play() on the engine.
HandlerCommands == {"none", "pause", "stop", "play"}

RunHandler(w, currTime, cmd) ==
    IF cmd = "pause" THEN pause(w, currTime)
    ELSE IF cmd = "stop" THEN stop(w)
    ELSE IF cmd = "play" THEN play(w, currTime)
    ELSE w

\* An _updateState that never looks for a skipped keyframe.
KeyframeWasSkipped_Never(reachedEntry, keyframeId) == FALSE

\* _updateState: "If a keyframe was skipped, set inst._currentFrame to the
\* first skipped keyframe" - whether the entry at the last index of the
\* reached list is replaced by the id at that index of the global list.
KeyframeWasSkipped(reachedEntry, keyframeId) == reachedEntry # keyframeId

\* A loop start that is set to the time of the tick that starts over.
ReanchoredLoopStart_AtTick(s, currTime) == currTime

\* _updateState: inst._loopStartTime = inst._startTime + parseInt((currTime -
\* inst._startTime) / (inst._animationDuration || 1), 10) *
\* inst._animationDuration
ReanchoredLoopStart(s, currTime) ==
    IF IsNumber(s.startTime)
    THEN s.startTime
           + ((currTime - s.startTime)
                \div (IF s.animationDuration = 0 THEN 1 ELSE s.animationDuration))
               * s.animationDuration
    ELSE NAN

\* _updateState, first part: the loop starting over.  done is TRUE when the
\* repetitions ran out and _updateState returns false.
StartOver(w, currTime) ==
    With([w.st EXCEPT
            !.loopStartTime = ReanchoredLoopStart(w.st, currTime),
            !.loopLength = IF w.st.animationDuration = 0 THEN 0
                           ELSE @ - w.st.animationDuration,
            !.reachedKeyframes = <<>>,
            !.keyframeCache = EmptyMap,
            !.sequences = masterLoopComplete(@)], LAMBDA s1 :
      IF s1.repsRemaining > -1 /\ s1.repsRemaining - 1 = 0
      THEN With(BoundHandlersFrom(
                  stop([_fireEvent(w, "loopComplete")
                          EXCEPT !.st = [s1 EXCEPT !.repsRemaining = 0]]),
                  "onStop", 1, currTime), LAMBDA w2 :
           With([w2 EXCEPT !.st.currentFrame = w2.st.lastKeyframe], LAMBDA w3 :
             [w |-> [(IF w3.st.repeatCompleteHandler
                      THEN [_fireEvent(w3, "repeatComplete")
                              EXCEPT !.st.repeatCompleteHandler = FALSE]
                      ELSE w3)
                       EXCEPT !.st.repsRemaining = -1],
              done |-> TRUE]))
      ELSE [w |-> _fireEvent(
                    [_fireEvent(w, "loopComplete")
                       EXCEPT !.st = [s1 EXCEPT !.repsRemaining =
                                          IF @ > -1 THEN @ - 1 ELSE @]],
                    "loopStart"),
            done |-> FALSE])

\* _updateState, second part: the current frame, the reached list with the
\* correction for skipped keyframes, the enterFrame event with what its
\* handler does, and the actors.
UpdateFrame(w, cmd, currTime) ==
    With([w.st EXCEPT !.currentFrame =
            IF ~Truthy(w.st.animationDuration)
            THEN (IF IsNumber(w.st.lastKeyframe) THEN 0 ELSE NAN)
            ELSE IF ~IsNumber(w.st.loopLength) THEN NAN
            ELSE (w.st.loopLength * w.st.lastKeyframe) \div w.st.animationDuration],
         LAMBDA s1 :
    With(_getLatestKeyframeId(s1, s1.keyframeIds), LAMBDA latest :
    With(IF latest = -1 THEN s1.lastKeyframe ELSE s1.keyframeIds[latest + 1],
         LAMBDA prevKeyframe :
    With(IF Gt(prevKeyframe,
               IF s1.reachedKeyframes = <<>> THEN 0 ELSE Last(s1.reachedKeyframes))
         THEN Append(s1.reachedKeyframes, prevKeyframe)
         ELSE s1.reachedKeyframes, LAMBDA reached :
    With(IF reached = <<>> THEN 1 ELSE Len(reached), LAMBDA lastIndex :
    With(IF lastIndex <= Len(s1.keyframeIds) THEN s1.keyframeIds[lastIndex] ELSE UNDEF,
         LAMBDA keyframeId :
    With(IF KeyframeWasSkipped(IF reached = <<>> THEN UNDEF ELSE reached[lastIndex],
                               keyframeId)
         THEN [s1 EXCEPT !.currentFrame = keyframeId,
                         !.reachedKeyframes =
                             IF reached = <<>> THEN <<keyframeId>>
                             ELSE [reached EXCEPT ![lastIndex] = keyframeId]]
         ELSE [s1 EXCEPT !.reachedKeyframes = reached], LAMBDA s2 :
      IF IsNumber(s2.currentFrame) /\ IsNumber(s2.lastKeyframe)
           /\ s2.currentFrame <= s2.lastKeyframe
      THEN With(RunHandler(_fireEvent([w EXCEPT !.st = s2], "enterFrame"), currTime, cmd),
                LAMBDA w3 : _updateActors(w3, w3.st.currentFrame, currTime))
      ELSE IF s2.isPuppet
      THEN _updateActors([w EXCEPT !.st = [s2 EXCEPT !.currentFrame = s2.lastKeyframe]],
                         s2.lastKeyframe, currTime)
      ELSE [w EXCEPT !.st = s2])))))))

\* _updateState, from the test "If this is a puppet Kapi, and it is not
\* playing, return" on.
UpdateAndForward(w, cmd, currTime) ==
    IF w.st.isPuppet /\ ~isPlaying(w.st) THEN [w |-> w, ret |-> FALSE]
    ELSE [w |-> UpdatePuppetsFrom(
                  SequencesDrawnFrom(UpdateFrame(w, cmd, currTime), 1, currTime),
                  1, currTime),
          ret |-> TRUE]

\* _updateState after the loop has started over: r is what StartOver left.
AfterStartOver(r, cmd, currTime) ==
    IF r.done THEN [w |-> r.w, ret |-> FALSE]
    ELSE UpdateAndForward(r.w, cmd, currTime)

\* function _updateState (frameWasCleared, masterAutoclear); ret is what it
\* returns.
_updateState(w, currTime, cmd) ==
    With([w EXCEPT !.st.loopLength =
            IF IsNumber(w.st.loopStartTime) THEN currTime - w.st.loopStartTime ELSE NAN],
         LAMBDA w1 :
      IF Gt(w1.st.loopLength, w1.st.animationDuration)
           /\ Len(w1.st.reachedKeyframes) = Len(w1.st.keyframeIds)
      THEN AfterStartOver(StartOver(w1, currTime), cmd, currTime)
      ELSE UpdateAndForward(w1, cmd, currTime))

----------------------------------------------------------------------------
(* Playback as actions                                                     *)

Epoch == 10             \* the clock when the engine is constructed

\* The timelines that are played, built with the timeline operations: a
\* short one (keyframes 0 and 1 of one actor) and a longer one (keyframes 0,
\* 2 and 4, with a second actor that enters at keyframe 2).
ShortTimeline(fps) ==
    keyframe(keyframe(add(NewInst(fps), "a", [x |-> Num(0)]),
                      "a", Frame(0), EmptyMap).st,
             "a", Frame(1), [x |-> Mod("+=", 1)]).st

LongTimeline(fps) ==
    keyframe(keyframe(keyframe(keyframe(keyframe(
        add(add(NewInst(fps), "a", [x |-> Num(0)]), "b", [x |-> Num(0)]),
        "a", Frame(0), EmptyMap).st,
        "a", Frame(2), [x |-> Num(1)]).st,
        "a", Frame(4), [x |-> Mod("+=", 1)]).st,
        "b", Frame(2), EmptyMap).st,
        "b", Frame(4), [x |-> Num(2)]).st

Timelines == {ShortTimeline(1000), LongTimeline(1000)}

\* The effect of a call of the page, or of a timer callback, that leaves the
\* world w behind.
Called(op, w, cost) ==
    /\ Cardinality(DOMAIN w.tm) <= MaxTimers
    /\ hist.calls + cost <= MaxCalls
    /\ inst' = w.st
    /\ timers' = w.tm
    /\ fired' = w.ev
    /\ lastCall' = op
    /\ lastErr' = IF Threw(w) THEN Last(w.ev).e ELSE ""
    /\ now' = now

Here == World(inst, timers, <<>>)

\* The record of a sequence after the events of one more call or tick.
SeqAfter(seq, ev) ==
    IF seq.loops = 0 \/ seq.ended \/ seq.broken THEN seq
    ELSE [seq EXCEPT !.completes = @ + CountEv(ev, "loopComplete"),
                     !.callbacks = @ + CountEv(ev, "repeatComplete"),
                     !.ended = CountEv(ev, "repeatComplete") > 0
                                  \/ (CountEv(ev, "loopComplete") > 0
                                        /\ CountEv(ev, "onStop") > 0)]

BrokenOff(seq) == IF seq.loops = 0 \/ seq.ended THEN seq ELSE [seq EXCEPT !.broken = TRUE]

InitPlay ==
    /\ inst \in Timelines
    /\ now = Epoch
    /\ timers = EmptyMap
    /\ lastCall = "kapi"
    /\ lastErr = ""
    /\ fired = <<>>
    /\ hist = NoHist

\* The world after a method of the engine that ends by firing the event
\* eventName, if it has fired it: the handlers bound to the event have run.
Fired(w, eventName, currTime) ==
    IF CountEv(w.ev, eventName) > 0 THEN BoundHandlersFrom(w, eventName, 1, currTime)
    ELSE w

\* The pauses counted, with the one that a play() at currTime ends.
PausedForAt(s, h, currTime) ==
    IF h.pausedFor = UNDEF \/ h.paused = NoPos THEN h.pausedFor
    ELSE IF /\ Has(s.actorstateIndex, "a")
            /\ s.actorstateIndex["a"].queue # <<>>
            /\ ~s.actorstateIndex["a"].queue[1].hole
            /\ s.actorstateIndex["a"].queue[1].startTime # UNDEF
         THEN h.pausedFor + (currTime - (h.paused.pos + h.paused.loopStartTime))
    ELSE h.pausedFor

Play ==
    /\ Called("play", Fired(play(Here, now), "onPlay", now), 1)
    /\ hist' = [hist EXCEPT !.calls = @ + 1,
                            !.wasPlaying = isPlaying(inst),
                            !.paused = NoPos,
                            !.pausedFor = PausedForAt(inst, hist, now)]

Pause ==
    /\ Called("pause", Fired(pause(Here, now), "onPause", now), 1)
    /\ hist' = [hist EXCEPT !.calls = @ + 1,
                            !.wasPlaying = isPlaying(inst),
                            !.clean = FALSE,
                            !.paused = IF isPlaying(inst)
                                       THEN [pos |-> now - inst.loopStartTime,
                                             startTime |-> inst.startTime,
                                             loopStartTime |-> inst.loopStartTime]
                                       ELSE @]

Stop ==
    /\ Called("stop", Fired(stop(Here), "onStop", now), 1)
    /\ hist' = [hist EXCEPT !.calls = @ + 1,
                            !.wasPlaying = isPlaying(inst),
                            !.clean = FALSE,
                            !.paused = NoPos,
                            !.seq = BrokenOff(@)]

Repeat(n, callback) ==
    /\ Called("repeat", repeat(Here, now, n, callback), 1)
    /\ hist' = [hist EXCEPT !.calls = @ + 1,
                            !.wasPlaying = isPlaying(inst),
                            !.paused = NoPos,
                            !.seq = [NoSeq EXCEPT !.loops = n + 1]]

Iterate(n, callback) ==
    /\ Called("iterate", iterate(Here, now, n, callback), 1)
    /\ hist' = [hist EXCEPT !.calls = @ + 1,
                            !.wasPlaying = isPlaying(inst),
                            !.paused = NoPos,
                            !.seq = [NoSeq EXCEPT !.loops = n]]

GotoFrame(id) ==
    /\ Called("gotoFrame", gotoFrame(Here, now, id), 1)
    /\ hist' = [hist EXCEPT !.calls = @ + 1,
                            !.wasPlaying = isPlaying(inst),
                            !.clean = FALSE,
                            !.paused = NoPos,
                            !.seq = BrokenOff(@)]

GotoAndPlay(id) ==
    /\ Called("gotoAndPlay", gotoAndPlay(Here, now, id), 1)
    /\ hist' = [hist EXCEPT !.calls = @ + 1,
                            !.wasPlaying = isPlaying(inst),
                            !.clean = FALSE,
                            !.paused = NoPos,
                            !.seq = BrokenOff(@)]

\* The clock advances by a millisecond.  A timer that is due may fire late,
\* by any number of milliseconds.  The behaviour of the engine does not
\* depend on when the first call is made, so the clock is followed from the
\* first call on.
Elapse ==
    /\ hist.calls > 0
    /\ now + 1 <= Epoch + MaxTime
    /\ now' = now + 1
    /\ UNCHANGED <<inst, timers, lastCall, lastErr, fired, hist>>

\* The clock advances while no timer is overdue: every timer fires in the
\* millisecond it is due.
ElapsePunctual ==
    /\ \A h \in DOMAIN timers : now < timers[h]
    /\ Elapse

\* The callback of a timer set by _scheduleUpdate:
\*   if (_updateState()) { _scheduleUpdate(); }
\* cmd is what the handler of enterFrame does if the event fires.
TimerCallback(w, currTime, cmd) ==
    With(_updateState(w, currTime, cmd), LAMBDA r :
      IF r.ret /\ ~Threw(r.w) THEN _scheduleUpdate(r.w, currTime) ELSE r.w)

\* The handlers of Immediate Actions among the events ev.
HandlersCalled(ev) == SelectSeq(ev, LAMBDA x : x.h > 0)

\* The effect of a timer callback that leaves the world w behind; ran is
\* whether the handler of enterFrame called the engine.
Ticked(w, cmd, ran) ==
    /\ cmd = "none" \/ (ran /\ hist.handlers < MaxHandlerCalls)
    /\ Called("tick", w, IF ran THEN 1 ELSE 0)
    /\ hist' = [hist EXCEPT !.calls = IF ran THEN @ + 1 ELSE @,
                            !.wasPlaying = isPlaying(inst),
                            !.clean = @ /\ ~ran,
                            !.handlers = IF ran THEN @ + 1 ELSE @,
                            !.paused = NoPos,
                            !.seq = IF ran THEN BrokenOff(SeqAfter(@, w.ev))
                                    ELSE SeqAfter(@, w.ev),
                            !.log = @ \o HandlersCalled(w.ev),
                            !.restarts = IF @ = UNDEF THEN @
                                         ELSE @ + CountEv(w.ev, "loopComplete")]

RanHandler(w, cmd) == cmd # "none" /\ CountEv(w.ev, "enterFrame") > 0

TickedWorld(w, cmd) == Ticked(w, cmd, RanHandler(w, cmd))

\* The timer with handle h fires.
Tick(h, cmd) ==
    /\ h \in DOMAIN timers
    /\ timers[h] <= now
    /\ TickedWorld(TimerCallback(World(inst, Del(timers, h), <<>>), now, cmd), cmd)

\* Playback that the page lets run: it starts the engine, with or without
\* a number of loops, and the timers fire.
NextLoop ==
    \/ Play
    \/ \E n \in 1..MaxReps : Repeat(n, TRUE)
    \/ \E n \in 1..MaxReps : Iterate(n, TRUE)
    \/ Elapse
    \/ \E h \in 0..(MaxTimers + 3) : Tick(h, "none")

SpecLoop == InitPlay /\ [][NextLoop]_vars

\* Playback that the page interrupts: it pauses, stops, seeks and resumes.
InitControl == InitPlay /\ inst = ShortTimeline(1000)

NextControl ==
    \/ Play
    \/ Pause
    \/ Stop
    \/ \E n \in 1..(MaxKeyframe - 1) : GotoFrame(Frame(n))
    \/ \E n \in 1..(MaxKeyframe - 1) : GotoAndPlay(Frame(n))
    \/ Elapse
    \/ \E h \in 0..(MaxTimers + 3) : Tick(h, "none")

SpecControl == InitControl /\ [][NextControl]_vars

\* Playback with a handler of enterFrame that calls the engine.
NextHandlers ==
    \/ Play
    \/ Pause
    \/ Stop
    \/ ElapsePunctual
    \/ \E h \in 0..(MaxTimers + 3), cmd \in HandlerCommands : Tick(h, cmd)

SpecHandlers == InitControl /\ [][NextHandlers]_vars

\* Playback with Immediate Actions: two actors, of which the second enters
\* at keyframe 1; the page plays the engine and calls to(), clearQueue(),
\* skipToEnd() and endCurrentAction() on the actors.
ActionTimeline(fps) ==
    CHOOSE s4 \in
        { keyframe(s3, "b", Frame(2), [x |-> Num(1)]).st : s3 \in
        { keyframe(s2, "b", Frame(1), EmptyMap).st : s2 \in
        { keyframe(s1, "a", Frame(2), EmptyMap).st : s1 \in
        { keyframe(s0, "a", Frame(0), EmptyMap).st : s0 \in
        { add(add(NewInst(fps), "a", [x |-> Num(0)]),
              "b", [x |-> Num(0)]) } } } } } : TRUE

\* The arguments of to(): a duration in frames with the state to reach.
ToArgs == { <<Frame(1), [x |-> Num(4)]>>, <<Frame(2), [x |-> Mod("+=", 2)]>> }

\* The effect of a call of a method of an actor with result r.
ActorCalled(op, r) ==
    /\ hist.calls + 1 <= MaxCalls
    /\ inst' = r.st
    /\ lastErr' = r.err
    /\ lastCall' = op
    /\ fired' = <<>>
    /\ hist' = [hist EXCEPT !.calls = @ + 1, !.wasPlaying = isPlaying(inst)]
    /\ UNCHANGED <<now, timers>>

\* The handlers passed with a to() call record the number of the call.
To(a, duration, stateObj) ==
    ActorCalled("to", to(inst, a, duration, stateObj,
                         Events(hist.calls + 1, hist.calls + 1)))

ClearQueue(a) == ActorCalled("clearQueue", clearQueue(inst, a))

SkipToEnd(a) == ActorCalled("skipToEnd", skipToEnd(inst, a))

EndCurrentAction(a) == ActorCalled("endCurrentAction", endCurrentAction(inst, a))

InitActions ==
    /\ inst = ActionTimeline(1000)
    /\ now = Epoch
    /\ timers = EmptyMap
    /\ lastCall = "kapi"
    /\ lastErr = ""
    /\ fired = <<>>
    /\ hist = NoHist

\* The timers fire in the millisecond they are due.
NextActions ==
    \/ Play
    \/ \E a \in ActorIds, args \in ToArgs : To(a, args[1], args[2])
    \/ \E a \in ActorIds : ClearQueue(a)
    \/ \E a \in ActorIds : SkipToEnd(a)
    \/ \E a \in ActorIds : EndCurrentAction(a)
    \/ ElapsePunctual
    \/ \E h \in 0..(MaxTimers + 3) : Tick(h, "none")

SpecActions == InitActions /\ [][NextActions]_vars

\* Playback frame by frame: the page starts the engine and every timer
\* fires in the millisecond it is due, so that at 1000 frames a second the
\* state of every frame is computed, in order.  The timelines:
\*   modifiers   x = b at keyframe 0 and "+=d" at the keyframes K and 2K
\*   segments    x = v0 at keyframe 0 and x = v1 at the last keyframe, with
\*               a keyframe with a value of its own between them, or without
\*   colours     a colour at keyframe 0 and another at the last keyframe
\*   easings     x and y from 0 to v, one of them with an easing of its own
\*   layers      two actors in either order of layers, of which one has no
\*               keyframes or enters later than the other
Keyframed(S, a, id, stateObj) == {keyframe(s, a, id, stateObj).st : s \in S}

Added(S, a, initialState) == {add(s, a, initialState) : s \in S}

Bases == {0, 10}
Deltas == {1, 5}
Spans == {1, 2}

ModifierTimelines ==
    UNION { Keyframed(Keyframed(Keyframed(
                Added({NewInst(1000)}, "a", [x |-> Num(b)]),
                "a", Frame(0), EmptyMap),
                "a", Frame(K), [x |-> Mod("+=", d)]),
                "a", Frame(2 * K), [x |-> Mod("+=", d)]) :
            b \in Bases, d \in Deltas, K \in Spans }

LastFrames == {4, 10}
EndValues == {100, -3}

SegmentTimelines ==
    UNION { Keyframed(Keyframed(
                Added({NewInst(1000)}, "a", [x |-> Num(0)]),
                "a", Frame(0), EmptyMap),
                "a", Frame(last), [x |-> Num(v1)]) :
            last \in LastFrames, v1 \in EndValues }
    \cup
    UNION { Keyframed(Keyframed(Keyframed(
                Added({NewInst(1000)}, "a", [x |-> Num(10)]),
                "a", Frame(0), EmptyMap),
                "a", Frame(1), [x |-> Num(4)]),
                "a", Frame(last), [x |-> Num(v1)]) :
            last \in LastFrames, v1 \in EndValues }

Black == Colour(0, 0, 0)
White == Colour(255, 255, 255)
Teal == Colour(0, 128, 129)

ColourTimelines ==
    UNION { Keyframed(Keyframed(
                Added({NewInst(1000)}, "a", [color |-> c0]),
                "a", Frame(0), EmptyMap),
                "a", Frame(last), [color |-> c1]) :
            last \in LastFrames,
            c0 \in {Hex(Black), Rgb(White)},
            c1 \in {Hex(White), Rgb(Teal)} }

EasingTimelines ==
    UNION { Keyframed(Keyframed(
                Added({NewInst(1000)}, "a", [x |-> Num(0), y |-> Num(0)]),
                "a", Frame(0), EmptyMap),
                "a", Frame(4), target) :
            target \in { [x |-> Eased("easeInQuad", 16), y |-> Num(16)],
                     [x |-> Num(16), y |-> Eased("easeInQuad", 16)] } }

LayerBases ==
    Added(Added({NewInst(1000)}, "a", [x |-> Num(0)]), "b", [x |-> Num(0)])
        \cup Added(Added({NewInst(1000)}, "b", [x |-> Num(0)]), "a", [x |-> Num(0)])

OneActorKeyframed ==
    Keyframed(Keyframed(LayerBases, "b", Frame(0), EmptyMap),
              "b", Frame(4), [x |-> Num(4)])

LayerTimelines ==
    OneActorKeyframed
        \cup Keyframed(Keyframed(OneActorKeyframed, "a", Frame(2), EmptyMap),
                       "a", Frame(3), [x |-> Num(1)])

FrameTimelines ==
    ModifierTimelines \cup SegmentTimelines \cup ColourTimelines
        \cup EasingTimelines \cup LayerTimelines

InitFrames ==
    /\ inst \in FrameTimelines
    /\ now = Epoch
    /\ timers = EmptyMap
    /\ lastCall = "kapi"
    /\ lastErr = ""
    /\ fired = <<>>
    /\ hist = NoHist

NextFrames ==
    \/ Play
    \/ ElapsePunctual
    \/ \E h \in 0..(MaxTimers + 3) : Tick(h, "none")

SpecFrames == InitFrames /\ [][NextFrames]_vars

\* Playback with puppets: an engine with one actor and the puppets "p" and
\* "q", each with one actor of its own.  play() was called on "q" when the
\* engine was set up.  The page plays and seeks the engine and calls
\* play(), repeat(), iterate() and gotoAndPlay() on "p"; the clock is
\* followed while the engine plays, and the timers fire in the millisecond
\* they are due.
PuppetNames == {"p", "q"}

Puppeted(S, p) == {puppetCreate(s, p).st : s \in S}

PuppetTimelines(S) ==
    Keyframed(Keyframed(Added(S, "b", [x |-> Num(0)]),
                        "b", Frame(0), EmptyMap),
              "b", Frame(2), [x |-> Num(4)])

Staged(S, p) ==
    UNION { {[s EXCEPT !.puppets[p] = t] : t \in PuppetTimelines({s.puppets[p]})} :
            s \in S }

PuppetShows ==
    Staged(Staged(Puppeted(Puppeted(
        Keyframed(Keyframed(Added({NewInst(1000)}, "a", [x |-> Num(0)]),
                            "a", Frame(0), EmptyMap),
                  "a", Frame(2), [x |-> Num(2)]),
        "p"), "q"), "p"), "q")

\* The effect of a call of a method of a puppet that leaves the world w.
PuppetCalled(op, w) ==
    /\ Called(op, w, 1)
    /\ hist' = [hist EXCEPT !.calls = @ + 1, !.wasPlaying = isPlaying(inst)]

PuppetPlay(p) ==
    PuppetCalled("puppet.play", OnPuppet(Here, p, LAMBDA pw : play(pw, now)))

PuppetRepeat(p, n) ==
    PuppetCalled("puppet.repeat",
                 OnPuppet(Here, p, LAMBDA pw : repeat(pw, now, n, FALSE)))

PuppetIterate(p, n) ==
    PuppetCalled("puppet.iterate",
                 OnPuppet(Here, p, LAMBDA pw : iterate(pw, now, n, FALSE)))

PuppetGotoAndPlayed(p, id) ==
    PuppetCalled("puppet.gotoAndPlay", PuppetGotoAndPlay(Here, p, now, id))

PuppetShowsBegun ==
    {OnPuppet(World(s, EmptyMap, <<>>), "q", LAMBDA pw : play(pw, Epoch)).st :
        s \in PuppetShows}

ElapsePlaying == isPlaying(inst) /\ ElapsePunctual

InitPuppets ==
    /\ inst \in PuppetShowsBegun
    /\ now = Epoch
    /\ timers = EmptyMap
    /\ lastCall = "kapi"
    /\ lastErr = ""
    /\ fired = <<>>
    /\ hist = NoHist

NextPuppets ==
    \/ Play
    \/ GotoFrame(Frame(1))
    \/ PuppetPlay("p")
    \/ \E n \in 1..(MaxReps - 1) : PuppetRepeat("p", n)
    \/ \E n \in 1..(MaxReps - 1) : PuppetIterate("p", n)
    \/ PuppetGotoAndPlayed("p", Frame(1))
    \/ ElapsePlaying
    \/ \E h \in 0..(MaxTimers + 3) : Tick(h, "none")

SpecPuppets == InitPuppets /\ [][NextPuppets]_vars

\* Playback with seeks to every frame of the longer timeline (keyframes 0,
\* 2 and 4): to the first frame, to a frame between keyframes and to the
\* last frame.
SeekFrames == {0, MaxKeyframe + 1, 2 * MaxKeyframe}

\* The longer timeline, built one call after the other.
SeekTimelines ==
    Keyframed(Keyframed(Keyframed(Keyframed(Keyframed(
        Added(Added({NewInst(1000)}, "a", [x |-> Num(0)]), "b", [x |-> Num(0)]),
        "a", Frame(0), EmptyMap),
        "a", Frame(2), [x |-> Num(1)]),
        "a", Frame(4), [x |-> Mod("+=", 1)]),
        "b", Frame(2), EmptyMap),
        "b", Frame(4), [x |-> Num(2)])

InitSeek ==
    /\ inst \in SeekTimelines
    /\ now = Epoch
    /\ timers = EmptyMap
    /\ lastCall = "kapi"
    /\ lastErr = ""
    /\ fired = <<>>
    /\ hist = NoHist

NextSeek ==
    \/ Play
    \/ \E f \in SeekFrames : GotoFrame(Frame(f))
    \/ \E f \in SeekFrames : GotoAndPlay(Frame(f))
    \/ ElapsePunctual
    \/ \E h \in 0..(MaxTimers + 3) : Tick(h, "none")

SpecSeek == InitSeek /\ [][NextSeek]_vars

\* Playback under tick jitter: the page starts the engine and every timer
\* fires when it is due or any number of milliseconds later; the loop
\* restarts are counted.  The timelines last 1 ms (keyframes 0 and 1) and
\* 4 ms (keyframes 0, 2 and 4).
JitterTimelines ==
    SeekTimelines
      \cup Keyframed(Keyframed(Added({NewInst(1000)}, "a", [x |-> Num(0)]),
                               "a", Frame(0), EmptyMap),
                     "a", Frame(1), [x |-> Mod("+=", 1)])

InitJitter ==
    /\ inst \in JitterTimelines
    /\ now = Epoch
    /\ timers = EmptyMap
    /\ lastCall = "kapi"
    /\ lastErr = ""
    /\ fired = <<>>
    /\ hist = [NoHist EXCEPT !.restarts = 0]

NextJitter ==
    \/ Play
    \/ Elapse
    \/ \E h \in 0..(MaxTimers + 3) : Tick(h, "none")

SpecJitter == InitJitter /\ [][NextJitter]_vars

\* Playback of an engine with a sequence "p": the engine has an actor with
\* keyframes 0 and 4, the sequence starts at frame 1 and ends at frame 3,
\* and the puppet of the sequence has an actor with keyframes 0 and 1.  The
\* page plays and pauses the engine.
SequencePuppets ==
    Keyframed(Keyframed(Added({NewInst(1000)}, "b", [x |-> Num(0)]),
                        "b", Frame(0), EmptyMap),
              "b", Frame(1), [x |-> Num(1)])

SequenceShows ==
    { sequenceEndAt(s3, "p", 2 * MaxKeyframe - 1) :
        s3 \in { sequenceStartAt(s2, "p", 1) :
          s2 \in { sequenceCreate(s1, "p", pt) :
            s1 \in Keyframed(Keyframed(Added({NewInst(1000)}, "a", [x |-> Num(0)]),
                                       "a", Frame(0), EmptyMap),
                             "a", Frame(2 * MaxKeyframe), [x |-> Num(4)]),
            pt \in SequencePuppets } } }

InitSequence ==
    /\ inst \in SequenceShows
    /\ now = Epoch
    /\ timers = EmptyMap
    /\ lastCall = "kapi"
    /\ lastErr = ""
    /\ fired = <<>>
    /\ hist = NoHist

NextSequence ==
    \/ Play
    \/ Pause
    \/ ElapsePunctual
    \/ \E h \in 0..(MaxTimers + 3) : Tick(h, "none")

SpecSequence == InitSequence /\ [][NextSequence]_vars

\* Actor "a" with x = 1 at keyframe 0 and a modifier of x at each later
\* keyframe: three segments, the second of which is one frame long.
CacheTimelines ==
    Keyframed(Keyframed(Keyframed(Keyframed(
        Added({NewInst(1000)}, "a", [x |-> Num(1)]),
        "a", Frame(0), EmptyMap),
        "a", Frame(1), [x |-> Mod("+=", 2)]),
        "a", Frame(2), [x |-> Mod("*=", 3)]),
        "a", Frame(4), [x |-> Mod("+=", 1)])

InitCache ==
    /\ inst \in CacheTimelines
    /\ now = Epoch
    /\ timers = EmptyMap
    /\ lastCall = "kapi"
    /\ lastErr = ""
    /\ fired = <<>>
    /\ hist = NoHist

\* The timeline played, with ticks that come at any spacing.
NextCache ==
    \/ Play
    \/ Pause
    \/ Elapse
    \/ \E h \in 0..(MaxTimers + 3) : Tick(h, "none")

SpecCache == InitCache /\ [][NextCache]_vars

\* Actor "a" with x = 0 at the keyframes 0 and 4, to be sent to x = 6 in 6
\* frames by an Immediate Action: the state of the action is then x = the
\* frames the action has run for.
PausedActionTimelines ==
    Keyframed(Keyframed(
        Added({NewInst(1000)}, "a", [x |-> Num(0)]),
        "a", Frame(0), EmptyMap),
        "a", Frame(4), EmptyMap)

ActionLength == 6

InitPausedAction ==
    /\ inst \in PausedActionTimelines
    /\ now = Epoch
    /\ timers = EmptyMap
    /\ lastCall = "kapi"
    /\ lastErr = ""
    /\ fired = <<>>
    /\ hist = [NoHist EXCEPT !.pausedFor = 0]

\* The page plays, pauses and resumes the engine and calls to() on the
\* actor; the timers fire in the millisecond they are due.
NextPausedAction ==
    \/ Play
    \/ Pause
    \/ To("a", Frame(ActionLength), [x |-> Num(ActionLength)])
    \/ ElapsePunctual
    \/ \E h \in 0..(MaxTimers + 3) : Tick(h, "none")

SpecPausedAction == InitPausedAction /\ [][NextPausedAction]_vars

\* Actor "a" with the single keyframe 0 and actor "b" with the keyframes 1
\* and 3, which extend the timeline beyond 0.
VisibleTimelines ==
    Keyframed(Keyframed(Keyframed(
        Added(Added({NewInst(1000)}, "a", [x |-> Num(0)]), "b", [x |-> Num(0)]),
        "a", Frame(0), EmptyMap),
        "b", Frame(1), EmptyMap),
        "b", Frame(3), [x |-> Num(2)])

InitVisible ==
    /\ inst \in VisibleTimelines
    /\ now = Epoch
    /\ timers = EmptyMap
    /\ lastCall = "kapi"
    /\ lastErr = ""
    /\ fired = <<>>
    /\ hist = NoHist

NextVisible ==
    \/ Play
    \/ Pause
    \/ Elapse
    \/ \E h \in 0..(MaxTimers + 3) : Tick(h, "none")

SpecVisible == InitVisible /\ [][NextVisible]_vars

\* The layers: the page adds and removes actors and moves them between the
\* layers.  moveToLayer is called with the layers -1 to 3, with 1.5 and with
\* a string.
LayerActors == {"a", "b", "c"}

LayerArgs ==
    {Num(n) : n \in -1..3} \cup {[t |-> "num", op |-> "", n |-> 3, d |-> 2], Str("1")}

NextLayers ==
    \/ \E a \in LayerActors, b \in InitialStates : Add(a, b)
    \/ \E a \in LayerActors : RemoveActor(a)
    \/ \E a \in LayerActors, layerId \in LayerArgs : MoveToLayer(a, layerId)

SpecLayers == InitStore /\ [][NextLayers]_vars

----------------------------------------------------------------------------
(* Properties of Immediate Actions                                         *)

\* The handlers of the actions of actor a called so far, in order.
ActorLog(a) == SelectSeq(hist.log, LAMBDA x : x.a = a)

\* C21: the actions of an actor run one at a time in the order of their
\* to() calls: the handlers called for the actor are the start handler and
\* then the complete handler of one action, then those of an action that
\* was enqueued later, and so on, so that no handler is called twice and no
\* action starts before the one before it has completed.
C21_ActionsInOrder ==
    \A a \in ActorIds :
        \A i \in 1..Len(ActorLog(a)) :
            /\ ActorLog(a)[i].e = IF i % 2 = 1 THEN "start" ELSE "complete"
            /\ (i % 2 = 0) => ActorLog(a)[i].h = ActorLog(a)[i - 1].h
            /\ (i % 2 = 1 /\ i > 2) => ActorLog(a)[i].h > ActorLog(a)[i - 2].h

\* C21, the case: two actions of one actor have run to completion, the one
\* after the other.
C21_Witness ==
    \E a \in ActorIds :
        /\ Len(ActorLog(a)) >= 4
        /\ ActorLog(a)[4].e = "complete"
        /\ lastCall = "tick"

\* The action at the head of the queue of actor a, and the step in which
\* its complete handler is called.
HeadOf(a) == inst.actorstateIndex[a].queue[1]

Completes(a) ==
    /\ inst.actorstateIndex[a].queue # <<>>
    /\ ~HeadOf(a).hole
    /\ lastCall' = "tick"
    /\ \E i \in 1..Len(fired') :
          fired'[i] = HandlerCalled("complete", a, HeadOf(a).events.complete)

\* The target of the action is known when it names a number, or when it
\* names a change of the value the action began with.
HasTarget(a) == HeadOf(a).state.x.t = "num" \/ HeadOf(a).fromState # NullBag

ResolvedTarget(a) ==
    IF HeadOf(a).state.x.t = "num" THEN HeadOf(a).state.x
    ELSE Rat(HeadOf(a).fromState.x.n + HeadOf(a).state.x.n * HeadOf(a).fromState.x.d,
             HeadOf(a).fromState.x.d)

\* C22: in the tick in which an action completes, the actor's property has
\* the resolved target of the action as its value, not a value beyond it,
\* and the bag stored back in the actor's keyframes holds that value.
C22_CompletesAtTarget ==
    [][\A a \in ActorIds :
          (Completes(a) /\ HasTarget(a)) =>
              /\ Has(inst'.currentState, a)
              /\ Has(inst'.currentState[a], "x")
              /\ inst'.currentState[a].x = ResolvedTarget(a)
              /\ \E k \in DOMAIN inst'.keyframes :
                    /\ Has(inst'.keyframes[k], a)
                    /\ Has(inst'.keyframes[k][a], "x")
                    /\ inst'.keyframes[k][a].x = ResolvedTarget(a)]_vars

\* What clearQueue() is to leave of a queue: the action at its head if that
\* action has begun, and nothing else.
KeptByClearQueue(queue) ==
    IF queue # <<>> /\ ~queue[1].hole /\ queue[1].startTime # UNDEF
    THEN <<queue[1]>> ELSE <<>>

\* C23: clearQueue() leaves in the queue of the actor the action in flight,
\* if there is one, and no other entry; an empty queue stays empty, and no
\* tick fails on an entry that is not an action.
C23_ClearQueueKeepsInFlight ==
    [][/\ \A a \in ActorIds :
            ClearQueue(a) =>
                inst'.actorstateIndex[a].queue =
                    KeptByClearQueue(inst.actorstateIndex[a].queue)
       /\ lastCall' = "tick" => lastErr' # "TypeError"]_vars

\* The keyframe ids at which the bag stored for actor a is not the same
\* after the step as before it.
StoredAnew(a) ==
    {k \in DOMAIN inst'.keyframes :
        /\ Has(inst'.keyframes[k], a)
        /\ (Has(inst.keyframes, k) /\ Has(inst.keyframes[k], a))
              => inst'.keyframes[k][a] # inst.keyframes[k][a]}

\* The keyframe of the actor's own list that the engine names the most
\* recent one at the frame it has reached.
OwnLatestKeyframe(a) ==
    inst'.actorstateIndex[a].idx[
        _getLatestKeyframeId(inst', inst'.actorstateIndex[a].idx) + 1]

\* C24: the bag that results from an action that completes is stored at
\* the most recent keyframe of the actor's own list, and at no keyframe id
\* at which the actor had no state.
C24_StoredAtOwnKeyframe ==
    [][\A a \in ActorIds :
          Completes(a) =>
              \A k \in StoredAnew(a) :
                  /\ Has(inst.keyframes[k], a)
                  /\ k = OwnLatestKeyframe(a)]_vars

----------------------------------------------------------------------------
(* Properties of the Property Resolver                                     *)

\* Actor a was drawn in the tick that has just run.
DrawnInTick(a) ==
    /\ lastCall = "tick"
    /\ \E i \in 1..Len(fired) : fired[i] = Drawn(a)

\* The keyframe ids of actor "a" and its stored state at the i-th of them.
IdxA == inst.actorstateIndex["a"].idx

StoredA(i) == inst.keyframes[IdxA[i]]["a"]

\* The timeline has x = b at keyframe 0 and a modifier of x at each of the
\* keyframes K and 2K.
IsModifierTimeline ==
    /\ Len(IdxA) = 3
    /\ Has(StoredA(1), "x")
    /\ StoredA(1).x.t = "num"
    /\ StoredA(2).x.t = "mod"
    /\ StoredA(3).x.t = "mod"

\* C25: played frame by frame, an actor with x = b at keyframe 0 and
\* x = "+=d" at the keyframes K and 2K is drawn with x = b + d at frame K
\* and with x = b + 2d at frame 2K, in the first loop and in every later
\* one.
C25_ModifiersOncePerLoop ==
    (IsModifierTimeline /\ DrawnInTick("a")) =>
        /\ inst.currentFrame = IdxA[2] =>
              inst.currentState["a"].x = Num(StoredA(1).x.n + StoredA(2).x.n)
        /\ inst.currentFrame = IdxA[3] =>
              inst.currentState["a"].x =
                  Num(StoredA(1).x.n + StoredA(2).x.n + StoredA(3).x.n)

\* C25, the case: x = 10 with "+=5" at the keyframes 2 and 4 is drawn with
\* x = 20 at frame 4 of a loop that is not the first.
C25_Witness ==
    /\ IsModifierTimeline
    /\ DrawnInTick("a")
    /\ IdxA = <<0, 2, 4>>
    /\ inst.currentFrame = 4
    /\ inst.loopStartTime > inst.startTime
    /\ StoredA(1).x = Num(10)
    /\ StoredA(2).x = Mod("+=", 5)
    /\ inst.currentState["a"].x = Num(20)

\* Every keyframe of actor "a" names a number for x, and no easing.
IsSegmentTimeline ==
    \A i \in 1..Len(IdxA) :
        /\ Has(StoredA(i), "x")
        /\ StoredA(i).x.t = "num"
        /\ \A p \in DOMAIN StoredA(i) : StoredA(i)[p].t # "ease"

\* v0 + (v1 - v0) * (f - a) / max(b - a, 1)
LinearValue(v0, v1, f, a, b) ==
    Rat(v0 * (IF b - a > 1 THEN b - a ELSE 1) + (v1 - v0) * (f - a),
        IF b - a > 1 THEN b - a ELSE 1)

\* C26: a numeric property with the static values v0 at keyframe a and v1
\* at the actor's next keyframe b is drawn at every frame f from a to b
\* with the value v0 + (v1 - v0) * (f - a) / max(b - a, 1).
C26_LinearInterpolation ==
    (IsSegmentTimeline /\ DrawnInTick("a")) =>
        \A i \in 1..(Len(IdxA) - 1) :
            (IdxA[i] <= inst.currentFrame /\ inst.currentFrame <= IdxA[i + 1]) =>
                inst.currentState["a"].x =
                    LinearValue(StoredA(i).x.n, StoredA(i + 1).x.n,
                                inst.currentFrame, IdxA[i], IdxA[i + 1])

\* C26, the case: 0 at keyframe 0 and 100 at keyframe 10 give 50 at frame 5.
C26_Witness ==
    /\ IsSegmentTimeline
    /\ DrawnInTick("a")
    /\ IdxA = <<0, 10>>
    /\ StoredA(1).x = Num(0)
    /\ StoredA(2).x = Num(100)
    /\ inst.currentFrame = 5
    /\ inst.currentState["a"].x = Num(50)

\* Actor "a" has two keyframes, with a colour at each.
IsColourTimeline ==
    /\ Len(IdxA) = 2
    /\ \A i \in 1..2 : Has(StoredA(i), "color") /\ isColorString(StoredA(i).color)

\* The channels of the colours at the two keyframes and of the colour drawn.
FromChannels == getRGBArr(StoredA(1).color)
ToChannels == getRGBArr(StoredA(2).color)
DrawnChannels == getRGBArr(inst.currentState["a"].color)

\* The greatest integer that is not above c0 + (c1 - c0) * (f - a) / (b - a).
FlooredChannel(c0, c1, f, a, b) == (c0 * (b - a) + (c1 - c0) * (f - a)) \div (b - a)

\* C27: a colour is drawn with each of its three channels eased on its own
\* and floored, so that every channel lies between its values at the two
\* keyframes.
C27_ColourChannelsFloored ==
    (IsColourTimeline /\ DrawnInTick("a")) =>
        /\ inst.currentState["a"].color.t = "rgb"
        /\ \A i \in 1..3 :
              /\ DrawnChannels[i] =
                    FlooredChannel(FromChannels[i], ToChannels[i],
                                   inst.currentFrame, IdxA[1], IdxA[2])
              /\ DrawnChannels[i] >= Min({FromChannels[i], ToChannels[i]})
              /\ DrawnChannels[i] <= Max({FromChannels[i], ToChannels[i]})

\* C27, the case: "#000000" at keyframe 0 and "#ffffff" at keyframe 10 give
\* rgb(127,127,127) at frame 5.
C27_Witness ==
    /\ IsColourTimeline
    /\ DrawnInTick("a")
    /\ IdxA = <<0, 10>>
    /\ FromChannels = <<0, 0, 0>>
    /\ ToChannels = <<255, 255, 255>>
    /\ inst.currentFrame = 5
    /\ inst.currentState["a"].color = Rgb(Colour(127, 127, 127))

\* Actor "a" has two keyframes with numbers for x and y at the first, and
\* at the second a value with an easing of its own for one of the two.
IsEasingTimeline ==
    /\ Len(IdxA) = 2
    /\ {"x", "y"} \subseteq DOMAIN StoredA(1)
    /\ {"x", "y"} \subseteq DOMAIN StoredA(2)
    /\ \E p \in {"x", "y"} : StoredA(2)[p].t = "ease"

\* C28: an easing given with the value of one property is used for that
\* property only: a property of the same keyframe that has none is drawn
\* with the easing of the actor (here the linear one), whether it is
\* processed before or after the property with the easing of its own.
C28_EasingOverrideIsLocal ==
    (IsEasingTimeline /\ DrawnInTick("a")) =>
        \A p \in {"x", "y"} :
            (StoredA(1)[p].t = "num" /\ StoredA(2)[p].t = "num") =>
                inst.currentState["a"][p] =
                    LinearValue(StoredA(1)[p].n, StoredA(2)[p].n,
                                inst.currentFrame, IdxA[1], IdxA[2])

\* The actors drawn in the tick that has just run, in the order of the
\* calls of their draw routines, and the layer of an actor.
DrawnActors == SelectSeq(fired, LAMBDA x : x.e = "draw")

LayerOf(a) == CHOOSE i \in 1..Len(inst.layerIndex) : inst.layerIndex[i] = a

\* C29: in a tick the draw routines are called in increasing order of
\* layers, so for no actor twice, and only for actors that have keyframes
\* of which the first is not after the current frame.
C29_DrawnInLayerOrder ==
    lastCall = "tick" =>
        /\ \A i \in 1..(Len(DrawnActors) - 1) :
              LayerOf(DrawnActors[i].a) < LayerOf(DrawnActors[i + 1].a)
        /\ \A i \in 1..Len(DrawnActors) :
              /\ inst.actorstateIndex[DrawnActors[i].a].idx # <<>>
              /\ inst.actorstateIndex[DrawnActors[i].a].idx[1] <= inst.currentFrame

\* C29, the case: actor "b" is on the layer below that of actor "a", which
\* enters at keyframe 2, and both are drawn in a tick, "b" first.
C29_Witness ==
    /\ lastCall = "tick"
    /\ inst.layerIndex = <<"b", "a">>
    /\ inst.actorstateIndex["a"].idx = <<2, 3>>
    /\ DrawnActors = <<Drawn("b"), Drawn("a")>>

----------------------------------------------------------------------------
(* Properties of Puppets                                                   *)

\* The step is a call of the page on the puppet p.
CallOnPuppet(p) ==
    /\ lastCall' \in {"puppet.play", "puppet.repeat", "puppet.iterate",
                      "puppet.gotoAndPlay"}
    /\ \/ PuppetPlay(p)
       \/ \E n \in 1..MaxReps : PuppetRepeat(p, n) \/ PuppetIterate(p, n)
       \/ PuppetGotoAndPlayed(p, Frame(1))

\* No timer was set by a puppet: a puppet remembers no handle, and a call
\* on a puppet leaves the timers of the page as they were.
NoPuppetTimer ==
    /\ \A p \in DOMAIN inst'.puppets : inst'.puppets[p].updateHandle = UNDEF
    /\ \A p \in DOMAIN inst.puppets : CallOnPuppet(p) => timers' = timers

\* In a tick in which the engine draws its actors, updateState is called
\* on every puppet, and on none before the last actor of the engine is
\* drawn.
ForwardedAfterActors ==
    lastCall' = "tick" =>
        /\ \A i, j \in 1..Len(fired') :
              (fired'[i].e = "draw" /\ fired'[i].a \in DOMAIN inst.actors
                 /\ fired'[j].e = "updateState") => i < j
        /\ (\E i \in 1..Len(fired') :
               fired'[i].e = "draw" /\ fired'[i].a \in DOMAIN inst.actors)
              => \A p \in DOMAIN inst.puppets :
                     \E j \in 1..Len(fired') : fired'[j] = Forwarded(p)

\* The current frame of the puppet p is another after the step than
\* before it, and the step is not a call on p.
PuppetAdvances(p) ==
    /\ inst'.puppets[p].currentFrame # inst.puppets[p].currentFrame
    /\ ~CallOnPuppet(p)

\* C30 as stated: a puppet sets no timer of its own, its current frame
\* advances only in a tick of its owner, and the owner forwards the tick to
\* every puppet after it has updated its own actors.
C30_PuppetAdvancesOnlyInTick ==
    [][/\ NoPuppetTimer
       /\ ForwardedAfterActors
       /\ \A p \in DOMAIN inst.puppets :
             PuppetAdvances(p) => lastCall' = "tick"]_vars

\* C30: a puppet sets no timer of its own; its current frame advances only
\* in a tick of its owner or in a gotoFrame() of its owner, which calls
\* updateState on the puppets as a tick does; in a tick the owner forwards
\* to every puppet after it has updated its own actors.
C30_PuppetAdvancesOnlyWithOwner ==
    [][/\ NoPuppetTimer
       /\ ForwardedAfterActors
       /\ \A p \in DOMAIN inst.puppets :
             PuppetAdvances(p) => lastCall' \in {"tick", "gotoFrame"}]_vars

\* C30, the case: after a play() on the puppet "p", a tick of the owner has
\* drawn the owner's actor and then brought "p" to a later frame, and no
\* timer is pending but the one of the owner.
C30_Witness ==
    /\ lastCall = "tick"
    /\ isPlaying(inst.puppets["p"])
    /\ inst.puppets["p"].currentFrame = 2
    /\ inst.puppets["p"].updateHandle = UNDEF
    /\ DOMAIN timers = {inst.updateHandle}
    /\ \E i, j \in 1..Len(fired) :
          i < j /\ fired[i] = Drawn("a") /\ fired[j] = Forwarded("p")

----------------------------------------------------------------------------
(* Properties of Seeking                                                   *)

\* The engine s stands at frame f: it shows frame f, every keyframe id below
\* f is marked reached and no id above f is.
StandsAt(s, f) ==
    /\ s.currentFrame = f
    /\ \A i \in 1..Len(s.keyframeIds) :
          /\ s.keyframeIds[i] < f => s.keyframeIds[i] \in SeqSet(s.reachedKeyframes)
          /\ s.keyframeIds[i] > f => s.keyframeIds[i] \notin SeqSet(s.reachedKeyframes)

\* C31: for every frame f with 0 <= f <= lastKeyframe, gotoFrame(f) leaves
\* the engine not playing, at frame f, with the keyframe ids below f marked
\* reached; gotoAndPlay(f) leaves it playing from frame f: the loop is taken
\* to have begun f frames before the call.
C31_SeeksToFrame ==
    [][\A f \in SeekFrames :
          /\ f <= inst.lastKeyframe
          => /\ GotoFrame(Frame(f)) => ~isPlaying(inst') /\ StandsAt(inst', f)
             /\ GotoAndPlay(Frame(f))
                => /\ isPlaying(inst')
                   /\ StandsAt(inst', f)
                   /\ inst'.loopStartTime = now - f * (1000 \div inst.fps)]_vars

\* The engine has started over at least once since play().
HasRestarted == hist.restarts # UNDEF /\ hist.restarts > 0 /\ IsNumber(inst.loopStartTime)

\* The ideal start of the loop after the restarts counted so far, and the
\* interval between two ticks.
IdealLoopStart == inst.startTime + hist.restarts * inst.animationDuration
TickInterval == 1000 \div inst.fps

\* C32: after N consecutive loop restarts under arbitrary tick jitter,
\* loopStartTime deviates from startTime + N * duration by less than one
\* tick interval.
C32_LoopStartNearIdeal ==
    HasRestarted => Abs(inst.loopStartTime - IdealLoopStart) < TickInterval

\* C32, amended: after N loop restarts under arbitrary tick jitter,
\* loopStartTime is startTime + M * duration for a whole number M >= N, and
\* at the tick that starts over M is the number of whole durations elapsed
\* since startTime: the loop start lies within one duration before the tick.
C32_LoopStartOnLattice ==
    [][/\ HasRestarted
          => /\ (inst.loopStartTime - inst.startTime) % inst.animationDuration = 0
             /\ inst.loopStartTime >= IdealLoopStart
       /\ (hist.restarts # UNDEF /\ hist'.restarts > hist.restarts)
          => /\ inst'.loopStartTime <= now
             /\ now - inst'.loopStartTime < inst.animationDuration]_vars

\* A tick that came late has started the 4 ms loop over for the first time
\* two durations after the start.
C32_Witness ==
    /\ lastCall = "tick"
    /\ hist.restarts = 1
    /\ inst.animationDuration = 4
    /\ inst.loopStartTime = inst.startTime + 2 * inst.animationDuration

----------------------------------------------------------------------------
(* Properties of Sequences                                                 *)

\* The master timeline has reached the endAt frame of the sequence q in the
\* loop that it is in.
ReachedEnd(q) ==
    /\ IsNumber(inst.currentFrame)
    /\ IsNumber(inst.sequences[q].endingKeyframeId)
    /\ inst.currentFrame >= inst.sequences[q].endingKeyframeId

\* C33: once the master timeline has reached a sequence's endAt frame, the
\* puppet of the sequence is not playing until the master loop restarts,
\* whatever pause() and play() calls the master gets; and a tick starts the
\* sequence (its draw routine calls iterate on the puppet) only if the
\* sequence was not running.
C33_SequenceEndsAndStartsOnce ==
    [][\A q \in DOMAIN inst.sequences :
          /\ ReachedEnd(q) => ~isPlaying(inst.puppets[q])
          /\ (/\ lastCall' = "tick"
              /\ now' = now
              /\ SequenceCall("sequence.iterate", q) \in SeqSet(fired'))
             => ~isPlaying(inst.puppets[q])]_vars

----------------------------------------------------------------------------
(* Properties of the Keyframe Cache                                        *)

\* The segment of actor "a" that the current frame lies in: the position, in
\* the actor's list, of the last keyframe before the frame.
SegmentA ==
    IF inst.currentFrame = 0 THEN 1
    ELSE CHOOSE i \in 1..Len(IdxA) :
           /\ IdxA[i] < inst.currentFrame
           /\ \A j \in 1..Len(IdxA) : IdxA[j] < inst.currentFrame => j <= i

\* The value of x at the i-th keyframe of actor "a": the stored number, or
\* the value at the keyframe before it with the stored modifier applied.
RECURSIVE ValueAtA(_)
ValueAtA(i) ==
    IF StoredA(i).x.t = "num" THEN StoredA(i).x.n
    ELSE IF StoredA(i).x.op = "+=" THEN ValueAtA(i - 1) + StoredA(i).x.n
    ELSE IF StoredA(i).x.op = "-=" THEN ValueAtA(i - 1) - StoredA(i).x.n
    ELSE ValueAtA(i - 1) * StoredA(i).x.n

\* The 'from' value of x that the engine used for the state of actor "a":
\* the one in the cache, or the stored number.
FromUsedA ==
    IF Has(inst.keyframeCache, "a") /\ Has(inst.keyframeCache["a"].from, "x")
    THEN inst.keyframeCache["a"].from["x"]
    ELSE Unwrapped(StoredA(SegmentA).x)

\* C34: whatever the spacing of the ticks, when the state of an actor was
\* computed inside a segment, the 'from' value of a property with modifiers
\* is the base value with the modifiers of the keyframes up to the start of
\* the segment applied in order, once each; and the value in the cache is
\* the value that the walk over the keyframes gives.
C34_FromIsModifiersInOrder ==
    DrawnInTick("a") /\ IsNumber(inst.currentFrame) =>
        /\ FromUsedA = Num(ValueAtA(SegmentA))
        /\ FromUsedA = _calculateUncachedProperty(inst, "a", "x")

\* The keyframes of actor a between which the current frame lies, as
\* positions in the actor's list (0 when the actor has no segment there).
LatestOf(a) ==
    IF inst.actorstateIndex[a].idx = <<>> \/ ~IsNumber(inst.currentFrame) THEN 0
    ELSE _getLatestKeyframeId(inst, inst.actorstateIndex[a].idx) + 1

NextOf(a) == _getNextKeyframeId(inst.actorstateIndex[a].idx, LatestOf(a) - 1) + 1

StoredOf(a, i) == inst.keyframes[inst.actorstateIndex[a].idx[i]][a]

\* C35: an Immediate Action never alters the values between which the
\* keyframes of the actor are interpolated.  On a timeline whose keyframes
\* store plain numbers for x, the 'to' value and the 'from' value that the
\* engine holds for the current segment of an actor are the stored ones,
\* whatever to() calls were made and evaluated.
C35_ActionsLeaveTargets ==
    \A a \in ActorIds :
        (Has(inst.keyframeCache, a) /\ LatestOf(a) > 0) =>
            /\ Has(inst.keyframeCache[a].to, "x") =>
                   inst.keyframeCache[a].to["x"] = Unwrapped(StoredOf(a, NextOf(a)).x)
            /\ Has(inst.keyframeCache[a].from, "x") =>
                   inst.keyframeCache[a].from["x"] = Unwrapped(StoredOf(a, LatestOf(a)).x)

\* The Immediate Action at the head of the queue of actor "a", once it has
\* been evaluated.
RunningActionA ==
    /\ inst.actorstateIndex["a"].queue # <<>>
    /\ inst.actorstateIndex["a"].queue[1].startTime # UNDEF

\* C36: the progress of an Immediate Action leaves out exactly the time the
\* engine was paused.  For an action from x = 0 to x = d in d frames, first
\* evaluated at t0, the state drawn at time t is x = the elapsed frames
\* ((t - t0) - P) * fps / 1000, with P the total length of the pauses.
C36_ProgressExcludesPauses ==
    [][(/\ lastCall' = "tick"
        /\ now' = now
        /\ Drawn("a") \in SeqSet(fired')
        /\ RunningActionA') =>
           inst'.currentState["a"].x
               = Rat((now - inst'.actorstateIndex["a"].queue[1].startTime - hist.pausedFor)
                        * inst.fps, 1000)]_vars

----------------------------------------------------------------------------
(* Properties of Removal                                                   *)

\* C37: remove() recomputes what the later keyframes of the actor inherit.
\* When every keyframe of the actor holds the inherited values and one of
\* its keyframes is removed, every keyframe that is left holds, for each
\* static property not given at it, the stored value of the actor's new
\* nearest earlier keyframe (of the parameter bag at the first one).
C37_RemoveRecomputesInheritance ==
    (Has(inst.actors, MainActor) /\ Inherits(inst, MainActor)) =>
        \A id \in FrameArgs :
            (HasState(inst, id.n, MainActor) /\ remove(inst, MainActor, id).err = "") =>
                Inherits(remove(inst, MainActor, id).st, MainActor)

----------------------------------------------------------------------------
(* Properties of Drawing                                                   *)

\* The current frame lies between the first and the last keyframe id of
\* actor a, both included.
WithinKeyframes(a) ==
    /\ inst.actorstateIndex[a].idx # <<>>
    /\ IsNumber(inst.currentFrame)
    /\ inst.actorstateIndex[a].idx[1] <= inst.currentFrame
    /\ inst.currentFrame <= Last(inst.actorstateIndex[a].idx)

\* C38: in a tick that updates the actors, every actor whose first and last
\* keyframe ids enclose the current frame is drawn - an actor with the
\* single keyframe 0 at frame 0, too.
C38_DrawnWithinKeyframes ==
    (lastCall = "tick" /\ Ev("enterFrame") \in SeqSet(fired)) =>
        \A a \in DOMAIN inst.actorstateIndex :
            WithinKeyframes(a) => Drawn(a) \in SeqSet(fired)

----------------------------------------------------------------------------
(* Properties of Layers                                                    *)

\* In engine s the layer order lists every registered actor once and
\* nothing else, and the layer of every actor is its position in the order.
LayersInOrder(s) ==
    /\ SeqSet(s.layerIndex) = DOMAIN s.actors
    /\ Len(s.layerIndex) = Cardinality(DOMAIN s.actors)
    /\ \A i \in 1..Len(s.layerIndex) :
          Has(s.actors, s.layerIndex[i]) =>
              s.actors[s.layerIndex[i]].params["layer"] = Num(i - 1)

\* The list seq without the entries x.
Without(seq, x) == SelectSeq(seq, LAMBDA y : y # x)

\* moveToLayer(layerId) of actor a on engine s does what is asked: with a
\* number from 0 to below the number of layers the actor stands at that
\* position, the other actors keep their order and the layers are in order;
\* any other argument raises and changes nothing.
MovesToLayer(s, a, layerId) ==
    IF /\ layerId.t = "num"
       /\ 0 <= layerId.n
       /\ layerId.n < Len(s.layerIndex) * layerId.d
    THEN /\ moveToLayer(s, a, layerId).err = ""
         /\ moveToLayer(s, a, layerId).st.layerIndex[(layerId.n \div layerId.d) + 1] = a
         /\ Without(moveToLayer(s, a, layerId).st.layerIndex, a) = Without(s.layerIndex, a)
         /\ LayersInOrder(moveToLayer(s, a, layerId).st)
    ELSE /\ moveToLayer(s, a, layerId).err # ""
         /\ moveToLayer(s, a, layerId).st = s

\* C39: after any add, removeActor and moveToLayer calls the layer order
\* holds every registered actor exactly once, with each actor's layer value
\* equal to its position; and moveToLayer moves the actor to a layer in
\* range, keeping the order of the others, and raises and changes nothing
\* otherwise.
C39_LayersConsistent ==
    /\ LayersInOrder(inst)
    /\ \A a \in DOMAIN inst.actors, layerId \in LayerArgs : MovesToLayer(inst, a, layerId)

\* C40: after a tick that updates the actors, getState() of an actor that
\* was drawn is the actor's own bag (it carries the actor's layer), and
\* getState() of an actor that has no state at the frame is the empty bag:
\* it is never the bag of another actor.
C40_GetStateIsOwn ==
    (lastCall = "tick" /\ Ev("enterFrame") \in SeqSet(fired)) =>
        \A a \in DOMAIN inst.actors :
            IF Drawn(a) \in SeqSet(fired)
            THEN /\ Has(getState(inst, a), "layer")
                 /\ getState(inst, a)["layer"] = inst.actors[a].params["layer"]
            ELSE getState(inst, a) = EmptyMap

----------------------------------------------------------------------------
(* Properties of the Tick Driver                                           *)

\* A step that is a call of op by the page.
CallOf(op) == lastCall' = op /\ hist'.calls = hist.calls + 1

\* One step of the list of reached keyframe ids: it stays, or the next id of
\* the global list is appended, or - every id being reached - it starts
\* again, empty or with the first id.
ReachedStep ==
    \/ inst'.reachedKeyframes = inst.reachedKeyframes
    \/ /\ Len(inst.reachedKeyframes) < Len(inst.keyframeIds)
       /\ inst'.reachedKeyframes =
             Append(inst.reachedKeyframes, inst.keyframeIds[Len(inst.reachedKeyframes) + 1])
    \/ /\ inst.reachedKeyframes = inst.keyframeIds
       /\ inst'.reachedKeyframes \in {<<>>, <<inst.keyframeIds[1]>>}

\* C1: in playback that is never interrupted, however late the ticks come,
\* the reached ids of a loop are the ids of the global list, appended one by
\* one in increasing order with none skipped, and the list starts again only
\* when every id has been reached.
C1_ReachedInOrder == [][hist'.clean => ReachedStep]_vars

\* C1, the case: a tick came when the clock was already past the end of the
\* loop and the list was still one id short; the id it reached is the next
\* one of the global list.
C1_Witness ==
    /\ hist.clean
    /\ lastCall = "tick"
    /\ Len(inst.keyframeIds) = 3
    /\ inst.reachedKeyframes = SubSeq(inst.keyframeIds, 1, 2)
    /\ Gt(inst.loopLength, inst.animationDuration)

\* C2 as stated: a tick fires enterFrame or draws an actor only while the
\* engine is playing - after a pause() or stop(), also one called by a
\* handler inside a tick, no tick runs until play() is called.
C2_NoTickUnlessPlaying ==
    (lastCall = "tick" /\ CountEv(fired, "enterFrame") + CountEv(fired, "draw") > 0)
        => hist.wasPlaying

\* C3 as stated: at most one tick timer is pending at any moment.
C3_AtMostOneTimer == Cardinality(DOMAIN timers) <= 1

\* C4: a play() called while the engine is playing changes nothing of the
\* engine, schedules no timer and fires no event.
C4_PlayWhilePlayingIsNoOp ==
    [][(CallOf("play") /\ isPlaying(inst))
          => (inst' = inst /\ timers' = timers /\ fired' = <<>>)]_vars

\* C4, the case: play() was called while the engine was playing, a timer
\* pending.
C4_Witness ==
    /\ lastCall = "play"
    /\ hist.wasPlaying
    /\ isPlaying(inst)
    /\ Cardinality(DOMAIN timers) = 1

\* C5 as stated: a play() that resumes the engine, whatever number of
\* pause() calls came after the pause() that interrupted playback, leaves the
\* loop position where it was at that pause(), and has shifted startTime by
\* as much as loopStartTime.
C5_LoopPositionFrozen ==
    [][(CallOf("play") /\ hist.paused # NoPos)
          => /\ now' - inst'.loopStartTime = hist.paused.pos
             /\ inst'.startTime - hist.paused.startTime
                  = inst'.loopStartTime - hist.paused.loopStartTime]_vars

\* C6 as stated: after stop() the timestamps are cleared, the queue and the
\* cache of every actor are empty and no keyframe counts as reached.
C6_StopResets ==
    lastCall = "stop" =>
        /\ inst.startTime = UNDEF
        /\ inst.loopStartTime = UNDEF
        /\ inst.pausedAtTime = UNDEF
        /\ inst.keyframeCache = EmptyMap
        /\ \A a \in DOMAIN inst.actorstateIndex :
              /\ inst.actorstateIndex[a].queue = <<>>
              /\ inst.actorstateIndex[a].reachedKeyframes = <<>>
        /\ inst.reachedKeyframes = <<>>

\* C7: the sequence started by iterate(n, cb) completes n loops and the one
\* started by repeat(n, cb) n + 1, no more and no less: while it runs, fewer
\* loops than that have completed, cb has not been called and the engine
\* counts the loops that remain; it ends in the tick that completes the last
\* loop, which stops the engine with no timer pending and calls cb, once;
\* from then on the engine has no limit of loops.
C7_LoopsCounted ==
    (hist.seq.loops > 0 /\ ~hist.seq.broken) =>
        IF hist.seq.ended
        THEN /\ hist.seq.completes = hist.seq.loops
             /\ hist.seq.callbacks = 1
             /\ inst.repsRemaining = -1
             /\ (lastCall = "tick" /\ CountEv(fired, "repeatComplete") > 0)
                   => (~isPlaying(inst) /\ timers = EmptyMap)
        ELSE /\ hist.seq.completes < hist.seq.loops
             /\ hist.seq.callbacks = 0
             /\ isPlaying(inst)
             /\ inst.repsRemaining = hist.seq.loops - hist.seq.completes

\* C7, the case: a sequence of two loops has ended, play() was called
\* after it and the engine has completed a further loop and plays on.
C7_Witness ==
    /\ hist.seq.loops = 2
    /\ hist.seq.ended
    /\ lastCall = "tick"
    /\ CountEv(fired, "loopComplete") > 0
    /\ isPlaying(inst)

====
